---- MODULE Spec2Model ----
(***************************************************************************)
(* A model of the XorLang pipeline (src/src/xorlang/core): lexer, parser,  *)
(* tree-walking evaluator with its scope chain, and the program runner.    *)
(*                                                                         *)
(* The interpreter's heap (environments, functions, classes, instances and *)
(* the lookup caches) is one record, `interp`; every handler of the code   *)
(* is an operator from a heap to a heap and a result, and the actions of   *)
(* the specifications apply those operators to inputs drawn from small     *)
(* sets.  Python's None is PyNone; a Python exception is the `sig` field   *)
(* of a result ("error" for xorlang's RuntimeError, "host" for any other   *)
(* Python exception, "return" for ReturnSignal).                           *)
(***************************************************************************)
EXTENDS Integers, Sequences, FiniteSets, TLC

VARIABLES
    interp,   \* the Interpreter object: its heap of environments and values
    last,     \* the last operation performed and what it returned
    steps     \* number of operations performed so far

vars == <<interp, last, steps>>

-----------------------------------------------------------------------------
(* Bounds of the model.                                                    *)

MaxEnvs == 3     \* Environment objects created in the scope-chain specification
MaxOps == 4      \* operations per behaviour of the scope-chain specification

-----------------------------------------------------------------------------
(* Finite maps (Python dicts).                                             *)

EmptyMap == [key \in {} |-> 0]

MapPut(f, key, v) == [y \in DOMAIN f \cup {key} |-> IF y = key THEN v ELSE f[y]]

\* A local variable of the code: the value v under the name that F gives it.
With(v, F(_)) == F(v)

-----------------------------------------------------------------------------
(* Runtime values.  Every value is a record of the same shape:             *)
(*   k  the kind of the Python object                                      *)
(*   n  a number's numerator, a bool's 0/1, or the heap index of an object *)
(*   d  a number's denominator (1 unless the number is a float)            *)
(*   s  a string's text, or a built-in's name                              *)

PyNone == [k |-> "None", n |-> 0, d |-> 1, s |-> ""]

PyInt(i) == [k |-> "int", n |-> i, d |-> 1, s |-> ""]

PyBool(b) == [k |-> "bool", n |-> IF b THEN 1 ELSE 0, d |-> 1, s |-> ""]

PyStr(str) == [k |-> "str", n |-> 0, d |-> 1, s |-> str]

Builtin(name) == [k |-> "builtin", n |-> 0, d |-> 1, s |-> name]

FunctionRef(i) == [k |-> "func", n |-> i, d |-> 1, s |-> ""]

ClassRef(i) == [k |-> "class", n |-> i, d |-> 1, s |-> ""]

InstanceRef(i) == [k |-> "inst", n |-> i, d |-> 1, s |-> ""]

EnvRef(i) == [k |-> "env", n |-> i, d |-> 1, s |-> ""]

-----------------------------------------------------------------------------
(* class Environment: parent is the index of the parent environment in     *)
(* interp.envs, 0 for None.                                                *)

Environment(parent) ==
    [parent |-> parent, values |-> EmptyMap, _cache |-> EmptyMap, _cache_version |-> 0]

\* Environment(parent) constructed on heap st: the new heap.
NewEnvironment(st, parent) == [st EXCEPT !.envs = Append(@, Environment(parent))]

RECURSIVE Environment_resolve(_, _, _)
Environment_resolve(st, e, name) ==
    IF name \in DOMAIN st.envs[e].values THEN e
    ELSE IF st.envs[e].parent # 0 THEN Environment_resolve(st, st.envs[e].parent, name)
    ELSE 0

Environment_define(st, e, name, value) ==
    [st EXCEPT !.envs[e].values = MapPut(@, name, value),
               !.envs[e]._cache_version = @ + 1]

\* set if it always wrote the environment it is called on.
Environment_set_InSelf(st, e, name, value) ==
    [st EXCEPT !.envs[e].values = MapPut(@, name, value),
               !.envs[e]._cache_version = @ + 1]

Environment_set(st, e, name, value) ==
    LET env == Environment_resolve(st, e, name) IN
    IF env = 0
    THEN [st EXCEPT !.envs[e].values = MapPut(@, name, value),
                    !.envs[e]._cache_version = @ + 1]
    ELSE [st EXCEPT !.envs[env].values = MapPut(@, name, value),
                    !.envs[env]._cache_version = @ + 1]

\* get returns the heap (its cache is written), the value, and sig "error" for
\* RuntimeError("Undefined variable ...").
Environment_get(st, e, name) ==
    LET this == st.envs[e]
        hit == /\ name \in DOMAIN this._cache
               /\ this._cache[name].version = this._cache_version
        env == Environment_resolve(st, e, name)
    IN  IF hit
        THEN [st |-> st, v |-> this._cache[name].value, sig |-> "ok", msg |-> ""]
        ELSE IF env = 0
        THEN [st |-> st, v |-> PyNone, sig |-> "error",
              msg |-> "Runtime error: Undefined variable '" \o name \o "'"]
        ELSE [st |-> [st EXCEPT !.envs[e]._cache =
                        MapPut(@, name, [value |-> st.envs[env].values[name],
                                         version |-> this._cache_version])],
              v |-> st.envs[env].values[name], sig |-> "ok", msg |-> ""]

-----------------------------------------------------------------------------
(* lexer.py: Position, Token, Lexer.  A source text is a string; the       *)
(* current character of the lexer is a one-character string, "" for None.  *)

DIGITS == {"0", "1", "2", "3", "4", "5", "6", "7", "8", "9"}

LETTERS ==
    {"a", "b", "c", "d", "e", "f", "g", "h", "i", "j", "k", "l", "m",
     "n", "o", "p", "q", "r", "s", "t", "u", "v", "w", "x", "y", "z",
     "A", "B", "C", "D", "E", "F", "G", "H", "I", "J", "K", "L", "M",
     "N", "O", "P", "Q", "R", "S", "T", "U", "V", "W", "X", "Y", "Z"}

LETTERS_DIGITS == LETTERS \cup DIGITS \cup {"_"}

KEYWORDS ==
    {"var", "func", "return", "if", "else", "while", "for", "true", "false", "null",
     "import", "class", "new", "this"}

DigitValue(c) ==
    CASE c = "0" -> 0 [] c = "1" -> 1 [] c = "2" -> 2 [] c = "3" -> 3 [] c = "4" -> 4
      [] c = "5" -> 5 [] c = "6" -> 6 [] c = "7" -> 7 [] c = "8" -> 8 [] c = "9" -> 9

\* Position(idx, ln, col, fn, ftext); fn and ftext are those of the lexer.
Position(idx, ln, col) == [idx |-> idx, ln |-> ln, col |-> col]

\* None where a Position is expected.
NoPos == [idx |-> 0 - 2, ln |-> 0 - 2, col |-> 0 - 2]

Position_advance(pos, current_char) ==
    IF current_char = "\n"
    THEN Position(pos.idx + 1, pos.ln + 1, 0)
    ELSE Position(pos.idx + 1, pos.ln, pos.col + 1)

\* Token(type_, value, pos_start, pos_end): value is the text of an identifier,
\* keyword or string, and n/d the number of an INT or FLOAT token.
Token(type_, value, n, d, pos_start, pos_end) ==
    [type |-> type_, value |-> value, n |-> n, d |-> d,
     pos_start |-> pos_start, pos_end |-> pos_end]

\* A token of one character: Token(TT_X, pos_start=self.pos.copy()).
OpToken(type_, pos_start) == Token(type_, "", 0, 1, pos_start, NoPos)

\* None where a token is expected.
NoToken == OpToken("None", NoPos)

Token_matches(tok, type_, value) == tok.type = type_ /\ tok.value = value

CharAt(text, idx) == IF idx < Len(text) THEN SubSeq(text, idx + 1, idx + 1) ELSE ""

\* Lexer.__init__: Position(-1, 0, 0), then advance().
Lexer(text) ==
    LET pos == Position_advance(Position(0 - 1, 0, 0), "") IN
    [pos |-> pos, current_char |-> CharAt(text, pos.idx)]

Lexer_advance(text, lx) ==
    LET pos == Position_advance(lx.pos, lx.current_char) IN
    [pos |-> pos, current_char |-> CharAt(text, pos.idx)]

Lexer_peek(text, lx) == CharAt(text, lx.pos.idx + 1)

\* An error object: its class, its message, and its positions.
Error(kind, message, pos_start, pos_end) ==
    [kind |-> kind, message |-> message, pos_start |-> pos_start, pos_end |-> pos_end]

NoError == Error("None", "", NoPos, NoPos)

RECURSIVE skip_line_comment(_, _)
skip_line_comment(text, lx) ==
    IF lx.current_char # "" /\ lx.current_char # "\n"
    THEN skip_line_comment(text, Lexer_advance(text, lx))
    ELSE IF lx.current_char = "\n" THEN Lexer_advance(text, lx) ELSE lx

RECURSIVE skip_block_comment_loop(_, _)
skip_block_comment_loop(text, lx) ==
    IF lx.current_char = ""
    THEN [lx |-> lx,
          error |-> Error("IllegalCharError", "Illegal character: Unterminated block comment",
                          lx.pos, lx.pos)]
    ELSE IF lx.current_char = "*" /\ Lexer_peek(text, lx) = "/"
    THEN [lx |-> Lexer_advance(text, Lexer_advance(text, lx)), error |-> NoError]
    ELSE skip_block_comment_loop(text, Lexer_advance(text, lx))

skip_block_comment(text, lx) ==
    skip_block_comment_loop(text, Lexer_advance(text, Lexer_advance(text, lx)))

\* The loop of make_number: the digits read so far as numerator n over 10^frac
\* (den), and the number of dots.
RECURSIVE make_number_loop(_, _, _, _, _)
make_number_loop(text, lx, n, den, dot_count) ==
    IF lx.current_char # "" /\ (lx.current_char \in DIGITS \/ lx.current_char = ".")
    THEN IF lx.current_char = "."
         THEN IF dot_count = 1
              THEN [lx |-> lx, n |-> n, den |-> den, dot_count |-> dot_count]
              ELSE make_number_loop(text, Lexer_advance(text, lx), n, den, dot_count + 1)
         ELSE make_number_loop(text, Lexer_advance(text, lx),
                               n * 10 + DigitValue(lx.current_char),
                               IF dot_count = 1 THEN den * 10 ELSE den, dot_count)
    ELSE [lx |-> lx, n |-> n, den |-> den, dot_count |-> dot_count]

make_number(text, lx) ==
    With(make_number_loop(text, lx, 0, 1, 0), LAMBDA r :
        [lx |-> r.lx,
         tok |-> Token(IF r.dot_count = 0 THEN "INT" ELSE "FLOAT", "", r.n,
                       IF r.dot_count = 0 THEN 1 ELSE r.den, lx.pos, r.lx.pos)])

RECURSIVE make_identifier_loop(_, _, _)
make_identifier_loop(text, lx, str) ==
    IF lx.current_char # "" /\ lx.current_char \in LETTERS_DIGITS
    THEN make_identifier_loop(text, Lexer_advance(text, lx), str \o lx.current_char)
    ELSE [lx |-> lx, s |-> str]

make_identifier_or_keyword(text, lx) ==
    With(make_identifier_loop(text, lx, ""), LAMBDA r :
        [lx |-> r.lx,
         tok |-> Token(IF r.s \in KEYWORDS THEN "KEYWORD" ELSE "IDENTIFIER",
                       r.s, 0, 1, lx.pos, r.lx.pos)])

Unescape(c) ==
    CASE c = "n" -> "\n" [] c = "t" -> "\t" [] c = "r" -> "\r" [] OTHER -> c

RECURSIVE make_string_loop(_, _, _, _, _)
make_string_loop(text, lx, quote, str, escape) ==
    IF lx.current_char # "" /\ (lx.current_char # quote \/ escape)
    THEN IF escape
         THEN make_string_loop(text, Lexer_advance(text, lx), quote,
                               str \o Unescape(lx.current_char), FALSE)
         ELSE IF lx.current_char = "\\"
         THEN make_string_loop(text, Lexer_advance(text, lx), quote, str, TRUE)
         ELSE make_string_loop(text, Lexer_advance(text, lx), quote,
                               str \o lx.current_char, FALSE)
    ELSE [lx |-> lx, s |-> str]

\* make_string returns a token or an UnterminatedStringError.
make_string(text, lx) ==
    With(make_string_loop(text, Lexer_advance(text, lx), lx.current_char, "", FALSE),
         LAMBDA r :
        IF r.lx.current_char = ""
        THEN [lx |-> r.lx, tok |-> NoToken,
              error |-> Error("UnterminatedStringError", "Unterminated string",
                              lx.pos, r.lx.pos)]
        ELSE With(Lexer_advance(text, r.lx), LAMBDA after :
                 [lx |-> after, tok |-> Token("STRING", r.s, 0, 1, lx.pos, after.pos),
                  error |-> NoError]))

\* The token type of a character that is a token by itself.
SingleCharType(c) ==
    CASE c = "+" -> "PLUS" [] c = "-" -> "MINUS" [] c = "*" -> "MUL" [] c = "/" -> "DIV"
      [] c = "%" -> "MOD" [] c = "(" -> "LPAREN" [] c = ")" -> "RPAREN"
      [] c = "{" -> "LBRACE" [] c = "}" -> "RBRACE" [] c = "," -> "COMMA"
      [] c = ";" -> "SEMI" [] c = "." -> "DOT" [] OTHER -> ""

\* '=', '<', '>' alone, and followed by '='.
PairCharType(c, followed) ==
    CASE c = "=" -> IF followed THEN "EE" ELSE "EQ"
      [] c = "<" -> IF followed THEN "LTE" ELSE "LT"
      [] c = ">" -> IF followed THEN "GTE" ELSE "GT"

LexResult(tokens, error) == [tokens |-> tokens, error |-> error]

\* The iterations of make_tokens' loop that append no token: blanks, newlines
\* and line comments.
RECURSIVE skip_blanks(_, _)
skip_blanks(text, lx) ==
    CASE lx.current_char \in {" ", "\t", "\r", "\n"} /\ lx.current_char # "" ->
             skip_blanks(text, Lexer_advance(text, lx))
      [] lx.current_char = "/" /\ Lexer_peek(text, lx) = "/" ->
             skip_blanks(text, skip_line_comment(text, lx))
      [] OTHER -> lx

\* One iteration of make_tokens' loop at a character that starts a token, a
\* block comment or an error: the lexer after it, the token if one is
\* appended, and the error if one is returned.
LexStep(lx, tok, has_tok, error) ==
    [lx |-> lx, tok |-> tok, has_tok |-> has_tok, error |-> error]

\* A token made of the current character c, or of c and a following '='.
make_operator(text, lx, c, next) ==
    CASE SingleCharType(c) # "" ->
             LexStep(next, OpToken(SingleCharType(c), lx.pos), TRUE, NoError)
      [] c \in {"=", "<", ">", "!"} /\ next.current_char = "=" ->
             LexStep(Lexer_advance(text, next),
                     Token(IF c = "!" THEN "NE" ELSE PairCharType(c, TRUE), "", 0, 1,
                           lx.pos, next.pos),
                     TRUE, NoError)
      [] c \in {"=", "<", ">"} /\ next.current_char # "=" ->
             LexStep(next, OpToken(PairCharType(c, FALSE), lx.pos), TRUE, NoError)
      [] c = "!" /\ next.current_char # "=" ->
             LexStep(next, NoToken, FALSE,
                     Error("IllegalCharError",
                           "Illegal character: '!' must be followed by '='",
                           lx.pos, next.pos))
      [] OTHER ->
             LexStep(next, NoToken, FALSE,
                     Error("IllegalCharError", "Illegal character: '" \o c \o "'",
                           lx.pos, next.pos))

make_token(text, lx) ==
    CASE lx.current_char = "/" /\ Lexer_peek(text, lx) = "*" ->
             With(skip_block_comment(text, lx), LAMBDA r :
                 LexStep(r.lx, NoToken, FALSE, r.error))
      [] lx.current_char \in DIGITS ->
             With(make_number(text, lx), LAMBDA r : LexStep(r.lx, r.tok, TRUE, NoError))
      [] lx.current_char \in LETTERS \cup {"_"} ->
             With(make_identifier_or_keyword(text, lx), LAMBDA r :
                 LexStep(r.lx, r.tok, TRUE, NoError))
      [] lx.current_char \in {"\"", "'"} ->
             With(make_string(text, lx), LAMBDA r :
                 LexStep(r.lx, r.tok, r.error.kind = "None", r.error))
      [] OTHER -> make_operator(text, lx, lx.current_char, Lexer_advance(text, lx))

\* The state of make_tokens between two iterations of its loop: the lexer, the
\* tokens so far, and, once the loop has been left (done), the error returned.
LexState(lx, tokens, error, done) ==
    [lx |-> lx, tokens |-> tokens, error |-> error, done |-> done]

\* make_tokens if an error were returned with the tokens lexed before it.
make_tokens_step_KeepsTokens(text, state) ==
    IF state.done THEN state ELSE
    With(skip_blanks(text, state.lx), LAMBDA at :
        IF at.current_char = ""
        THEN LexState(at, Append(state.tokens, OpToken("EOF", at.pos)), NoError, TRUE)
        ELSE With(make_token(text, at), LAMBDA step :
                 IF step.error.kind # "None"
                 THEN LexState(step.lx, state.tokens, step.error, TRUE)
                 ELSE LexState(step.lx,
                               IF step.has_tok THEN Append(state.tokens, step.tok)
                               ELSE state.tokens,
                               NoError, FALSE)))

\* The iterations of the while loop of make_tokens up to and including the
\* next one that appends a token, skips a block comment or returns.
make_tokens_step(text, state) ==
    IF state.done THEN state ELSE
    With(skip_blanks(text, state.lx), LAMBDA at :
        IF at.current_char = ""
        THEN LexState(at, Append(state.tokens, OpToken("EOF", at.pos)), NoError, TRUE)
        ELSE With(make_token(text, at), LAMBDA step :
                 IF step.error.kind # "None" THEN LexState(step.lx, <<>>, step.error, TRUE)
                 ELSE LexState(step.lx,
                               IF step.has_tok THEN Append(state.tokens, step.tok)
                               ELSE state.tokens,
                               NoError, FALSE)))

\* At most n steps from state: the first half of them, and the second half
\* unless the loop has been left by then.
RECURSIVE make_tokens_steps(_, _, _)
make_tokens_steps(text, state, n) ==
    IF n <= 1 THEN make_tokens_step(text, state)
    ELSE With(make_tokens_steps(text, state, n \div 2), LAMBDA half :
             IF half.done THEN half ELSE make_tokens_steps(text, half, n - (n \div 2)))

\* Every step before the last consumes a character, so Len(text) + 1 steps
\* leave the loop.
make_tokens(text) ==
    With(make_tokens_steps(text, LexState(Lexer(text), <<>>, NoError, FALSE), Len(text) + 1),
         LAMBDA final : LexResult(final.tokens, final.error))

\* lexer.run(fn, text)
lex_run(text) == make_tokens(text)

-----------------------------------------------------------------------------
(* ast_nodes.py: a node is a record whose type field is its class name.    *)

\* None where a node is expected.
NoNode == [type |-> "None", pos_start |-> NoPos, pos_end |-> NoPos]

IsNode(node) == node.type # "None"

NumberNode(tok) ==
    [type |-> "NumberNode", tok |-> tok, pos_start |-> tok.pos_start, pos_end |-> tok.pos_end]

StringNode(tok) ==
    [type |-> "StringNode", tok |-> tok, pos_start |-> tok.pos_start, pos_end |-> tok.pos_end]

BoolNode(tok) ==
    [type |-> "BoolNode", tok |-> tok, pos_start |-> tok.pos_start, pos_end |-> tok.pos_end]

NullNode(tok) ==
    [type |-> "NullNode", tok |-> tok, pos_start |-> tok.pos_start, pos_end |-> tok.pos_end]

ThisNode(tok) ==
    [type |-> "ThisNode", tok |-> tok, pos_start |-> tok.pos_start, pos_end |-> tok.pos_end]

VarAccessNode(name_tok) ==
    [type |-> "VarAccessNode", name_tok |-> name_tok,
     pos_start |-> name_tok.pos_start, pos_end |-> name_tok.pos_end]

MemberAccessNode(obj_node, member_tok) ==
    [type |-> "MemberAccessNode", obj_node |-> obj_node, member_tok |-> member_tok,
     pos_start |-> obj_node.pos_start, pos_end |-> member_tok.pos_end]

VarDeclNode(name_tok, value_node) ==
    [type |-> "VarDeclNode", name_tok |-> name_tok, value_node |-> value_node,
     pos_start |-> name_tok.pos_start,
     pos_end |-> IF IsNode(value_node) THEN value_node.pos_end ELSE name_tok.pos_end]

AssignNode(target_node, expr_node) ==
    [type |-> "AssignNode", target_node |-> target_node, expr_node |-> expr_node,
     pos_start |-> target_node.pos_start, pos_end |-> expr_node.pos_end]

BinOpNode(left, op_tok, right) ==
    [type |-> "BinOpNode", left |-> left, op_tok |-> op_tok, right |-> right,
     pos_start |-> left.pos_start, pos_end |-> right.pos_end]

UnaryOpNode(op_tok, node) ==
    [type |-> "UnaryOpNode", op_tok |-> op_tok, node |-> node,
     pos_start |-> op_tok.pos_start, pos_end |-> node.pos_end]

CallNode(callee_node, arg_nodes) ==
    [type |-> "CallNode", callee_node |-> callee_node, arg_nodes |-> arg_nodes,
     pos_start |-> callee_node.pos_start,
     pos_end |-> IF arg_nodes # <<>> THEN arg_nodes[Len(arg_nodes)].pos_end
                 ELSE callee_node.pos_end]

BlockNode(statements_list, pos_start, pos_end) ==
    [type |-> "BlockNode", statements |-> statements_list,
     pos_start |-> pos_start, pos_end |-> pos_end]

ExpressionStatementNode(expr_node) ==
    [type |-> "ExpressionStatementNode", expr |-> expr_node,
     pos_start |-> expr_node.pos_start, pos_end |-> expr_node.pos_end]

\* cases is a sequence of <<condition, body>> pairs.
IfNode(cases, else_case) ==
    [type |-> "IfNode", cases |-> cases, else_case |-> else_case,
     pos_start |-> IF cases # <<>> THEN cases[1][1].pos_start ELSE NoPos,
     pos_end |-> IF cases = <<>> THEN NoPos
                 ELSE IF IsNode(else_case) THEN else_case.pos_end
                 ELSE cases[Len(cases)][2].pos_end]

WhileNode(cond_node, body_block) ==
    [type |-> "WhileNode", cond_node |-> cond_node, body_block |-> body_block,
     pos_start |-> cond_node.pos_start, pos_end |-> body_block.pos_end]

\* ForNode.__init__ reads cond_node.pos_start when init_node is None: with both
\* None this is an attribute read on None, which raises AttributeError.
ForNode_raises(init_node, cond_node) == ~IsNode(init_node) /\ ~IsNode(cond_node)

ForNode(init_node, cond_node, update_node, body_block) ==
    [type |-> "ForNode", init_node |-> init_node, cond_node |-> cond_node,
     update_node |-> update_node, body_block |-> body_block,
     pos_start |-> IF IsNode(init_node) THEN init_node.pos_start ELSE cond_node.pos_start,
     pos_end |-> body_block.pos_end]

\* name_tok is a token of type "None" for an anonymous function.
FuncDefNode(name_tok, arg_name_toks, body_block) ==
    [type |-> "FuncDefNode", name_tok |-> name_tok, arg_name_toks |-> arg_name_toks,
     body_block |-> body_block,
     pos_start |-> IF name_tok.type # "None" THEN name_tok.pos_start
                   ELSE body_block.pos_start,
     pos_end |-> body_block.pos_end]

ReturnNode(expr_node, pos_start, pos_end) ==
    [type |-> "ReturnNode", expr_node |-> expr_node,
     pos_start |-> pos_start, pos_end |-> pos_end]

NewNode(class_name_tok, arg_nodes) ==
    [type |-> "NewNode", class_name_tok |-> class_name_tok, arg_nodes |-> arg_nodes,
     pos_start |-> class_name_tok.pos_start,
     pos_end |-> IF arg_nodes # <<>> THEN arg_nodes[Len(arg_nodes)].pos_end
                 ELSE class_name_tok.pos_end]

ClassDefNode(name_tok, members) ==
    [type |-> "ClassDefNode", name_tok |-> name_tok, members |-> members,
     pos_start |-> name_tok.pos_start,
     pos_end |-> IF members # <<>> THEN members[Len(members)].pos_end
                 ELSE name_tok.pos_end]

ImportNode(module_name) ==
    [type |-> "ImportNode", module_name |-> module_name,
     pos_start |-> module_name.pos_start, pos_end |-> module_name.pos_end]

-----------------------------------------------------------------------------
(* parser.py: ParseResult and Parser.  The parser's state is tok_idx, here *)
(* one-based; every parsing method takes it and returns it in its result.  *)
(* The raised field names a host exception that left the method.           *)

ParseError(pos_start, pos_end, details) ==
    Error("ParseError", "Syntax error: " \o details, pos_start, pos_end)

ParseResult_success(node, i) ==
    [node |-> node, error |-> NoError, raised |-> "", tok_idx |-> i]

ParseResult_failure(error, i) ==
    [node |-> NoNode, error |-> error, raised |-> "", tok_idx |-> i]

ParseResult_raise(exception, i) ==
    [node |-> NoNode, error |-> NoError, raised |-> exception, tok_idx |-> i]

\* "if res.error: return res", and an exception passing through.
Failed(res) == res.error.kind # "None" \/ res.raised # ""

\* update_current_tok: past the end the current token stays the last one.
current_tok(tokens, i) == tokens[IF i <= Len(tokens) THEN i ELSE Len(tokens)]

\* res.failure(ParseError(current_tok.pos_start, current_tok.pos_end, details))
Expected(tokens, i, details) ==
    ParseResult_failure(ParseError(current_tok(tokens, i).pos_start,
                                   current_tok(tokens, i).pos_end, details), i)

RECURSIVE statements(_, _)
RECURSIVE statements_loop(_, _, _, _)
RECURSIVE statement(_, _)
RECURSIVE cond_and_body(_, _)
RECURSIVE braced_body(_, _, _)
RECURSIVE if_statement(_, _)
RECURSIVE elif_loop(_, _, _)
RECURSIVE for_statement(_, _)
RECURSIVE func_def_statement(_, _)
RECURSIVE class_members_loop(_, _, _)
RECURSIVE expr(_, _)
RECURSIVE bin_op(_, _, _, _)
RECURSIVE bin_op_loop(_, _, _, _, _)
RECURSIVE unary(_, _)
RECURSIVE call_or_member_loop(_, _, _)
RECURSIVE arguments_loop(_, _, _)
RECURSIVE primary(_, _)
RECURSIVE class_member(_, _, _)

RECURSIVE skip_semicolons(_, _)
skip_semicolons(tokens, i) ==
    IF current_tok(tokens, i).type = "SEMI" THEN skip_semicolons(tokens, i + 1) ELSE i

\* A result that carries a list (of nodes, of tokens, of cases) in place of a node.
ListResult(list, i) == [node |-> list, error |-> NoError, raised |-> "", tok_idx |-> i]

statements(tokens, i) ==
    IF current_tok(tokens, i).type \in {"EOF", "RBRACE"}
    THEN ParseResult_success(BlockNode(<<>>, current_tok(tokens, i).pos_start,
                                       current_tok(tokens, i).pos_end), i)
    ELSE With(statement(tokens, i), LAMBDA first :
             IF Failed(first) THEN first
             ELSE statements_loop(tokens, first.tok_idx, <<first.node>>,
                                  current_tok(tokens, i).pos_start))

statements_loop(tokens, i, statements_list, pos_start) ==
    With(skip_semicolons(tokens, i), LAMBDA j :
        IF current_tok(tokens, j).type \in {"EOF", "RBRACE"}
        THEN ParseResult_success(
                 BlockNode(statements_list, pos_start,
                           statements_list[Len(statements_list)].pos_end), j)
        ELSE With(statement(tokens, j), LAMBDA r :
                 IF Failed(r) THEN r
                 ELSE statements_loop(tokens, r.tok_idx, Append(statements_list, r.node),
                                      pos_start)))

var_decl_statement(tokens, i) ==
    IF current_tok(tokens, i + 1).type # "IDENTIFIER"
    THEN Expected(tokens, i + 1, "Expected identifier")
    ELSE IF current_tok(tokens, i + 2).type = "EQ"
    THEN With(expr(tokens, i + 3), LAMBDA r :
             IF Failed(r) THEN r
             ELSE ParseResult_success(VarDeclNode(current_tok(tokens, i + 1), r.node),
                                      r.tok_idx))
    ELSE ParseResult_success(VarDeclNode(current_tok(tokens, i + 1), NoNode), i + 2)

\* '{' statements '}' with the current token at the '{'; the node is the block.
braced_body(tokens, i, lbrace_details) ==
    IF current_tok(tokens, i).type # "LBRACE" THEN Expected(tokens, i, lbrace_details)
    ELSE With(statements(tokens, i + 1), LAMBDA body :
             IF Failed(body) THEN body
             ELSE IF current_tok(tokens, body.tok_idx).type # "RBRACE"
             THEN Expected(tokens, body.tok_idx, "Expected '}'")
             ELSE ParseResult_success(body.node, body.tok_idx + 1))

\* '(' expr ')' '{' statements '}' with the current token at the '('; the node
\* is the <<condition, body>> pair.
cond_and_body(tokens, i) ==
    IF current_tok(tokens, i).type # "LPAREN" THEN Expected(tokens, i, "Expected '('")
    ELSE With(expr(tokens, i + 1), LAMBDA condition :
             IF Failed(condition) THEN condition
             ELSE IF current_tok(tokens, condition.tok_idx).type # "RPAREN"
             THEN Expected(tokens, condition.tok_idx, "Expected ')'")
             ELSE With(braced_body(tokens, condition.tok_idx + 1, "Expected '{'"),
                       LAMBDA body :
                      IF Failed(body) THEN body
                      ELSE ListResult(<<condition.node, body.node>>, body.tok_idx)))

elif_loop(tokens, i, cases) ==
    IF Token_matches(current_tok(tokens, i), "KEYWORD", "elif")
    THEN With(cond_and_body(tokens, i + 1), LAMBDA r :
             IF Failed(r) THEN r ELSE elif_loop(tokens, r.tok_idx, Append(cases, r.node)))
    ELSE ListResult(cases, i)

\* The else clause of an if statement, the current token after the last body.
else_clause(tokens, i, cases) ==
    IF Token_matches(current_tok(tokens, i), "KEYWORD", "else")
    THEN With(braced_body(tokens, i + 1, "Expected '{'"), LAMBDA else_case :
             IF Failed(else_case) THEN else_case
             ELSE ParseResult_success(IfNode(cases, else_case.node), else_case.tok_idx))
    ELSE ParseResult_success(IfNode(cases, NoNode), i)

if_statement(tokens, i) ==
    With(cond_and_body(tokens, i + 1), LAMBDA first :
        IF Failed(first) THEN first
        ELSE With(elif_loop(tokens, first.tok_idx, <<first.node>>), LAMBDA rest :
                 IF Failed(rest) THEN rest
                 ELSE else_clause(tokens, rest.tok_idx, rest.node)))

while_statement(tokens, i) ==
    With(cond_and_body(tokens, i + 1), LAMBDA r :
        IF Failed(r) THEN r
        ELSE ParseResult_success(WhileNode(r.node[1], r.node[2]), r.tok_idx))

\* A clause of a for statement that is followed by ';': r is the clause parsed.
for_clause(tokens, r, details) ==
    IF Failed(r) THEN r
    ELSE IF current_tok(tokens, r.tok_idx).type # "SEMI"
    THEN Expected(tokens, r.tok_idx, details)
    ELSE ParseResult_success(r.node, r.tok_idx + 1)

\* The three clauses of a for statement, the current token after the '('.
for_init(tokens, i) ==
    IF current_tok(tokens, i).type = "SEMI" THEN ParseResult_success(NoNode, i + 1)
    ELSE for_clause(tokens, statement(tokens, i), "Expected ';' after for loop initializer")

for_cond(tokens, i) ==
    IF current_tok(tokens, i).type = "SEMI" THEN ParseResult_success(NoNode, i + 1)
    ELSE for_clause(tokens, expr(tokens, i), "Expected ';' after for loop condition")

for_update(tokens, i) ==
    IF current_tok(tokens, i).type = "RPAREN" THEN ParseResult_success(NoNode, i)
    ELSE expr(tokens, i)

\* The body of a for statement and the construction of its node.
for_body(tokens, init, cond, update) ==
    With(braced_body(tokens, update.tok_idx + 1, "Expected '{'"), LAMBDA body :
        IF Failed(body) THEN body
        ELSE IF ForNode_raises(init.node, cond.node)
        THEN ParseResult_raise("AttributeError", body.tok_idx)
        ELSE ParseResult_success(ForNode(init.node, cond.node, update.node, body.node),
                                 body.tok_idx))

for_statement(tokens, i) ==
    IF current_tok(tokens, i + 1).type # "LPAREN"
    THEN Expected(tokens, i + 1, "Expected '('")
    ELSE
    With(for_init(tokens, i + 2), LAMBDA init :
    IF Failed(init) THEN init ELSE
    With(for_cond(tokens, init.tok_idx), LAMBDA cond :
    IF Failed(cond) THEN cond ELSE
    With(for_update(tokens, cond.tok_idx), LAMBDA update :
    IF Failed(update) THEN update
    ELSE IF current_tok(tokens, update.tok_idx).type # "RPAREN"
    THEN Expected(tokens, update.tok_idx, "Expected ')' after for loop clauses")
    ELSE for_body(tokens, init, cond, update))))

\* The parameter names after the first one.
RECURSIVE arg_names_loop(_, _, _)
arg_names_loop(tokens, i, arg_name_toks) ==
    IF current_tok(tokens, i).type = "COMMA"
    THEN IF current_tok(tokens, i + 1).type # "IDENTIFIER"
         THEN Expected(tokens, i + 1, "Expected identifier")
         ELSE arg_names_loop(tokens, i + 2, Append(arg_name_toks, current_tok(tokens, i + 1)))
    ELSE ListResult(arg_name_toks, i)

\* The parameter list and the body of a function definition, the current token
\* at the '(' if there is one.
func_def_rest(tokens, lparen, var_name_tok) ==
    IF current_tok(tokens, lparen).type # "LPAREN"
    THEN Expected(tokens, lparen, "Expected '(' in function definition")
    ELSE
    With(IF current_tok(tokens, lparen + 1).type = "IDENTIFIER"
         THEN arg_names_loop(tokens, lparen + 2, <<current_tok(tokens, lparen + 1)>>)
         ELSE ListResult(<<>>, lparen + 1), LAMBDA names :
    IF Failed(names) THEN names
    ELSE IF current_tok(tokens, names.tok_idx).type # "RPAREN"
    THEN Expected(tokens, names.tok_idx, "Expected ')' or ',' in function definition")
    ELSE
    With(braced_body(tokens, names.tok_idx + 1, "Expected '{' in function definition"),
         LAMBDA body :
    IF Failed(body) THEN body
    ELSE ParseResult_success(FuncDefNode(var_name_tok, names.node, body.node),
                             body.tok_idx)))

func_def_statement(tokens, i) ==
    IF current_tok(tokens, i + 1).type = "IDENTIFIER"
    THEN func_def_rest(tokens, i + 2, current_tok(tokens, i + 1))
    ELSE func_def_rest(tokens, i + 1, NoToken)

\* One member of a class body, the current token j after the semicolons.
class_member(tokens, j, members) ==
    IF Token_matches(current_tok(tokens, j), "KEYWORD", "func")
    THEN With(func_def_statement(tokens, j), LAMBDA member :
             IF Failed(member) THEN member
             ELSE class_members_loop(tokens, member.tok_idx, Append(members, member.node)))
    ELSE IF current_tok(tokens, j).type = "RBRACE" THEN ListResult(members, j)
    ELSE Expected(tokens, j, "Expected 'func' member or '}' in class definition")

class_members_loop(tokens, i, members) ==
    IF current_tok(tokens, i).type \notin {"RBRACE", "EOF"}
    THEN class_member(tokens, skip_semicolons(tokens, i), members)
    ELSE ListResult(members, i)

class_def_statement(tokens, i) ==
    IF current_tok(tokens, i + 1).type # "IDENTIFIER"
    THEN Expected(tokens, i + 1, "Expected class name")
    ELSE IF current_tok(tokens, i + 2).type # "LBRACE"
    THEN Expected(tokens, i + 2, "Expected '{' after class name")
    ELSE With(class_members_loop(tokens, i + 3, <<>>), LAMBDA members :
             IF Failed(members) THEN members
             ELSE IF current_tok(tokens, members.tok_idx).type # "RBRACE"
             THEN Expected(tokens, members.tok_idx, "Expected '}' to close class body")
             ELSE ParseResult_success(ClassDefNode(current_tok(tokens, i + 1), members.node),
                                      members.tok_idx + 1))

return_statement(tokens, i) ==
    IF current_tok(tokens, i + 1).type # "SEMI"
    THEN With(expr(tokens, i + 1), LAMBDA r :
             IF Failed(r) THEN r
             ELSE ParseResult_success(
                      ReturnNode(r.node, current_tok(tokens, i).pos_start,
                                 current_tok(tokens, r.tok_idx).pos_start),
                      r.tok_idx))
    ELSE ParseResult_success(
             ReturnNode(NoNode, current_tok(tokens, i).pos_start,
                        current_tok(tokens, i + 1).pos_start), i + 1)

\* The statement that begins with the keyword tok.value.
keyword_statement(tokens, i, keyword) ==
    CASE keyword = "var" -> var_decl_statement(tokens, i)
      [] keyword = "if" -> if_statement(tokens, i)
      [] keyword = "while" -> while_statement(tokens, i)
      [] keyword = "for" -> for_statement(tokens, i)
      [] keyword = "func" -> func_def_statement(tokens, i)
      [] keyword = "class" -> class_def_statement(tokens, i)
      [] keyword = "return" -> return_statement(tokens, i)

StatementKeywords == {"var", "if", "while", "for", "func", "class", "return"}

statement(tokens, i) ==
    IF current_tok(tokens, i).type = "KEYWORD"
       /\ current_tok(tokens, i).value \in StatementKeywords
    THEN keyword_statement(tokens, i, current_tok(tokens, i).value)
    ELSE With(expr(tokens, i), LAMBDA r :
             IF Failed(r) THEN r
             ELSE ParseResult_success(ExpressionStatementNode(r.node), r.tok_idx))

\* comp, term, factor and unary as the func argument of bin_op.
comp(tokens, i) == bin_op("term", {"LT", "GT", "LTE", "GTE"}, tokens, i)

term(tokens, i) == bin_op("factor", {"PLUS", "MINUS"}, tokens, i)

factor_ops == {"MUL", "DIV"}

factor(tokens, i) == bin_op("unary", factor_ops, tokens, i)

bin_op_func(func, tokens, i) ==
    CASE func = "comp" -> comp(tokens, i)
      [] func = "term" -> term(tokens, i)
      [] func = "factor" -> factor(tokens, i)
      [] func = "unary" -> unary(tokens, i)

bin_op(func, ops, tokens, i) ==
    With(bin_op_func(func, tokens, i), LAMBDA left :
        IF Failed(left) THEN left
        ELSE bin_op_loop(func, ops, tokens, left.tok_idx, left.node))

bin_op_loop(func, ops, tokens, i, left) ==
    IF current_tok(tokens, i).type \in ops
    THEN With(bin_op_func(func, tokens, i + 1), LAMBDA right :
             IF Failed(right) THEN right
             ELSE bin_op_loop(func, ops, tokens, right.tok_idx,
                              BinOpNode(left, current_tok(tokens, i), right.node)))
    ELSE ParseResult_success(left, i)

\* The right-hand side of an assignment to the target left.node.
assignment(tokens, left) ==
    IF left.node.type \notin {"VarAccessNode", "MemberAccessNode"}
    THEN ParseResult_failure(ParseError(left.node.pos_start, left.node.pos_end,
                                        "Invalid assignment target"),
                             left.tok_idx + 1)
    ELSE With(expr(tokens, left.tok_idx + 1), LAMBDA right :
             IF Failed(right) THEN right
             ELSE ParseResult_success(AssignNode(left.node, right.node), right.tok_idx))

expr(tokens, i) ==
    With(bin_op("comp", {"EE", "NE"}, tokens, i), LAMBDA left :
        IF Failed(left) THEN left
        ELSE IF current_tok(tokens, left.tok_idx).type = "EQ" THEN assignment(tokens, left)
        ELSE left)

unary(tokens, i) ==
    IF current_tok(tokens, i).type \in {"PLUS", "MINUS"}
    THEN With(unary(tokens, i + 1), LAMBDA r :
             IF Failed(r) THEN r
             ELSE ParseResult_success(UnaryOpNode(current_tok(tokens, i), r.node), r.tok_idx))
    ELSE With(primary(tokens, i), LAMBDA r :
             IF Failed(r) THEN r ELSE call_or_member_loop(tokens, r.tok_idx, r.node))

\* The argument list of a call or of new, the current token after the '('.
arguments_loop(tokens, i, args) ==
    IF current_tok(tokens, i).type = "COMMA"
    THEN With(expr(tokens, i + 1), LAMBDA r :
             IF Failed(r) THEN r
             ELSE arguments_loop(tokens, r.tok_idx, Append(args, r.node)))
    ELSE ListResult(args, i)

\* The ')' that ends the argument list args.
arguments_end(tokens, args) ==
    IF Failed(args) THEN args
    ELSE IF current_tok(tokens, args.tok_idx).type # "RPAREN"
    THEN Expected(tokens, args.tok_idx, "Expected ')' after arguments")
    ELSE ListResult(args.node, args.tok_idx + 1)

arguments(tokens, i) ==
    IF current_tok(tokens, i).type # "RPAREN"
    THEN With(expr(tokens, i), LAMBDA r :
             IF Failed(r) THEN r
             ELSE arguments_end(tokens, arguments_loop(tokens, r.tok_idx, <<r.node>>)))
    ELSE ListResult(<<>>, i + 1)

\* The while loop of call_or_member.
call_or_member_loop(tokens, i, node) ==
    IF current_tok(tokens, i).type = "LPAREN"
    THEN With(arguments(tokens, i + 1), LAMBDA args :
             IF Failed(args) THEN args
             ELSE call_or_member_loop(tokens, args.tok_idx, CallNode(node, args.node)))
    ELSE IF current_tok(tokens, i).type = "DOT"
    THEN IF current_tok(tokens, i + 1).type # "IDENTIFIER"
         THEN Expected(tokens, i + 1, "Expected identifier after '.'")
         ELSE call_or_member_loop(tokens, i + 2,
                                  MemberAccessNode(node, current_tok(tokens, i + 1)))
    ELSE ParseResult_success(node, i)

new_expression(tokens, i) ==
    IF current_tok(tokens, i + 1).type # "IDENTIFIER"
    THEN Expected(tokens, i + 1, "Expected class name after 'new'")
    ELSE IF current_tok(tokens, i + 2).type # "LPAREN"
    THEN Expected(tokens, i + 2, "Expected '(' after class name")
    ELSE With(arguments(tokens, i + 3), LAMBDA args :
             IF Failed(args) THEN args
             ELSE ParseResult_success(NewNode(current_tok(tokens, i + 1), args.node),
                                      args.tok_idx))

\* '(' expr ')' with the current token at the '('.
parenthesized(tokens, i) ==
    With(expr(tokens, i + 1), LAMBDA r :
        IF Failed(r) THEN r
        ELSE IF current_tok(tokens, r.tok_idx).type # "RPAREN"
        THEN Expected(tokens, r.tok_idx, "Expected ')'")
        ELSE ParseResult_success(r.node, r.tok_idx + 1))

\* The node of a token that is an expression by itself.
literal(tok, i) ==
    CASE tok.type \in {"INT", "FLOAT"} -> ParseResult_success(NumberNode(tok), i + 1)
      [] tok.type = "STRING" -> ParseResult_success(StringNode(tok), i + 1)
      [] tok.type = "KEYWORD" /\ tok.value \in {"true", "false"} ->
             ParseResult_success(BoolNode(tok), i + 1)
      [] tok.type = "KEYWORD" /\ tok.value = "null" ->
             ParseResult_success(NullNode(tok), i + 1)
      [] tok.type = "KEYWORD" /\ tok.value = "this" ->
             ParseResult_success(ThisNode(tok), i + 1)
      [] tok.type = "IDENTIFIER" -> ParseResult_success(VarAccessNode(tok), i + 1)
      [] OTHER ->
             ParseResult_failure(
                 ParseError(tok.pos_start, tok.pos_end,
                     "Expected int, float, string, identifier, 'true', 'false', 'null', or '('"),
                 i)

primary(tokens, i) ==
    IF Token_matches(current_tok(tokens, i), "KEYWORD", "new") THEN new_expression(tokens, i)
    ELSE IF current_tok(tokens, i).type = "LPAREN" THEN parenthesized(tokens, i)
    ELSE literal(current_tok(tokens, i), i)

\* The error of parse() when a token is left after the statements.
TrailingToken(tokens, res) ==
    [res EXCEPT !.error =
        ParseError(current_tok(tokens, res.tok_idx).pos_start,
                   current_tok(tokens, res.tok_idx).pos_end,
                   "Expected '+', '-', '*', '/', '==', '!=', '<', '>', '<=', '>=', 'var', 'if', 'for', 'while', 'func', 'return', or 'class'")]

\* Parser(tokens).parse()
Parser_parse(tokens) ==
    With(statements(tokens, 1), LAMBDA res :
        IF ~Failed(res) /\ current_tok(tokens, res.tok_idx).type # "EOF"
        THEN TrailingToken(tokens, res)
        ELSE res)

-----------------------------------------------------------------------------
(* interpreter.py: the objects of a process.  Objects live in sequences    *)
(* and are referred to by index.  A ClassValue and an InstanceValue also   *)
(* record their id(), the address the allocator gave them: no two objects  *)
(* alive at the same time share one, an object created after another one   *)
(* was collected may be given the address of that one.                     *)

EmptyHeap ==
    [envs |-> <<>>,             \* Environment objects
     funcs |-> <<>>,            \* FunctionValue objects
     classes |-> <<>>,          \* ClassValue objects
     insts |-> <<>>,            \* InstanceValue objects
     interps |-> <<>>,          \* Interpreter objects
     _eval_methods |-> EmptyMap,    \* Interpreter._eval_methods, a class attribute
     stdout |-> <<>>,           \* what print has written
     module_evals |-> 0,        \* number of module bodies evaluated by _eval_module
     ids |-> 0,                 \* number of addresses handed out so far
     free |-> <<>>]             \* addresses of collected objects, next to be handed out

\* The outcome of evaluating a node: the heap after it, and either a value
\* (sig "ok"), a xorlang RuntimeError ("error"), another Python exception
\* ("host"), a ReturnSignal carrying v ("return"), or no outcome because the
\* evaluation does not end ("hang").
Ok(st, v) == [st |-> st, v |-> v, sig |-> "ok", msg |-> ""]

RuntimeError(st, message) ==
    [st |-> st, v |-> PyNone, sig |-> "error", msg |-> "Runtime error: " \o message]

HostException(st, exception) == [st |-> st, v |-> PyNone, sig |-> "host", msg |-> exception]

ReturnSignal(st, value) == [st |-> st, v |-> value, sig |-> "return", msg |-> "Return signal"]

Hang(st) == [st |-> st, v |-> PyNone, sig |-> "hang", msg |-> ""]

FunctionValue(name, params, body, closure) ==
    [name |-> name, params |-> params, body |-> body, closure |-> closure]

ClassValue(name, members) == [name |-> name, members |-> members]

InstanceValue(cls) == [cls |-> cls, fields |-> EmptyMap]

\* A new object on heap st: the object with the id() it is given, and the heap
\* after the allocation.
Allocate(st, object) ==
    IF st.free # <<>>
    THEN [st |-> [st EXCEPT !.free = Tail(@)], object |-> [id |-> Head(st.free)] @@ object]
    ELSE [st |-> [st EXCEPT !.ids = @ + 1], object |-> [id |-> st.ids + 1] @@ object]

\* id(obj) for a ClassValue or an InstanceValue.
id(st, obj) == IF obj.k = "inst" THEN st.insts[obj.n].id ELSE st.classes[obj.n].id

\* Python's arithmetic on the values of the language.  A number is n/d with
\* d > 0 in lowest terms; bool is a subclass of int.
IsNum(v) == v.k \in {"int", "float", "bool"}

Abs(a) == IF a < 0 THEN 0 - a ELSE a

RECURSIVE Gcd(_, _)
Gcd(a, b) == IF b = 0 THEN a ELSE Gcd(b, a % b)

Number(kind, n, d) ==
    LET g == Gcd(Abs(n), Abs(d))
        sign == IF d < 0 THEN 0 - 1 ELSE 1
    IN  [k |-> kind, n |-> (sign * n) \div g, d |-> (sign * d) \div g, s |-> ""]

NumKind(a, b) == IF a.k = "float" \/ b.k = "float" THEN "float" ELSE "int"

\* floor(a / b) and Python's a % b on integers, b # 0.
FloorDiv(a, b) == IF b > 0 THEN a \div b ELSE (0 - a) \div (0 - b)

PyMod(a, b) == a - b * FloorDiv(a, b)

RECURSIVE StrRepeat(_, _)
StrRepeat(str, n) == IF n <= 0 THEN "" ELSE str \o StrRepeat(str, n - 1)

\* bool(v)
Truthy(v) ==
    CASE v.k = "None" -> FALSE
      [] IsNum(v) -> v.n # 0
      [] v.k = "str" -> v.s # ""
      [] OTHER -> TRUE

\* a == b.  Two distinct FunctionValue, ClassValue or InstanceValue objects are
\* compared field by field by their dataclass __eq__; that case is left out.
PyEq(a, b) ==
    CASE IsNum(a) /\ IsNum(b) -> a.n * b.d = b.n * a.d
      [] IsNum(a) # IsNum(b) -> FALSE
      [] a.k # b.k -> FALSE
      [] a.k = "None" -> TRUE
      [] a.k \in {"str", "builtin"} -> a.s = b.s
      [] a.k = "env" -> a.n = b.n
      [] a.k \in {"func", "class", "inst"} /\ a.n = b.n -> TRUE

\* a < b; between two strings the order is lexicographic, which is left out.
PyLess(st, a, b, strict) ==
    IF IsNum(a) /\ IsNum(b)
    THEN Ok(st, PyBool(IF strict THEN a.n * b.d < b.n * a.d ELSE a.n * b.d <= b.n * a.d))
    ELSE CASE ~(a.k = "str" /\ b.k = "str") -> HostException(st, "TypeError")

\* The operator of a BinOpNode applied to two values.
BinOp(st, op, left, right) ==
    LET nums == IsNum(left) /\ IsNum(right) IN
    CASE op = "PLUS" ->
           IF nums THEN Ok(st, Number(NumKind(left, right),
                                      left.n * right.d + right.n * left.d, left.d * right.d))
           ELSE IF left.k = "str" /\ right.k = "str" THEN Ok(st, PyStr(left.s \o right.s))
           ELSE HostException(st, "TypeError")
      [] op = "MINUS" ->
           IF nums THEN Ok(st, Number(NumKind(left, right),
                                      left.n * right.d - right.n * left.d, left.d * right.d))
           ELSE HostException(st, "TypeError")
      [] op = "MUL" ->
           IF nums THEN Ok(st, Number(NumKind(left, right), left.n * right.n, left.d * right.d))
           ELSE IF left.k = "str" /\ right.k \in {"int", "bool"}
           THEN Ok(st, PyStr(StrRepeat(left.s, right.n)))
           ELSE IF right.k = "str" /\ left.k \in {"int", "bool"}
           THEN Ok(st, PyStr(StrRepeat(right.s, left.n)))
           ELSE HostException(st, "TypeError")
      [] op = "DIV" ->
           IF PyEq(right, PyInt(0)) THEN RuntimeError(st, "Division by zero")
           ELSE IF nums THEN Ok(st, Number("float", left.n * right.d, left.d * right.n))
           ELSE HostException(st, "TypeError")
      [] op = "MOD" ->
           IF PyEq(right, PyInt(0)) THEN RuntimeError(st, "Modulo by zero")
           ELSE IF nums
           THEN Ok(st, Number(NumKind(left, right),
                              PyMod(left.n * right.d, right.n * left.d), left.d * right.d))
           ELSE HostException(st, "TypeError")
      [] op = "EE" -> Ok(st, PyBool(PyEq(left, right)))
      [] op = "NE" -> Ok(st, PyBool(~PyEq(left, right)))
      [] op = "LT" -> PyLess(st, left, right, TRUE)
      [] op = "GT" -> PyLess(st, right, left, TRUE)
      [] op = "LTE" -> PyLess(st, left, right, FALSE)
      [] op = "GTE" -> PyLess(st, right, left, FALSE)
      [] OTHER -> RuntimeError(st, "Unknown binary operator: " \o op)

\* errors.py: XorLangError.format_error, for an error of a lexer or parser run
\* on the file fn with text ftext.
RECURSIVE LineOf(_, _, _)
LineOf(text, ln, from) ==
    LET RECURSIVE EndOfLine(_)
        EndOfLine(j) == IF j > Len(text) \/ SubSeq(text, j, j) = "\n" THEN j
                        ELSE EndOfLine(j + 1)
        end == EndOfLine(from)
    IN  IF ln = 0 THEN SubSeq(text, from, end - 1) ELSE LineOf(text, ln - 1, end + 1)

Spaces(n) == StrRepeat(" ", n)

format_error(error, fn, ftext) ==
    IF error.pos_start # NoPos /\ error.pos_end # NoPos
    THEN error.kind \o ": " \o error.message \o "\n"
         \o "File " \o fn \o ", line " \o ToString(error.pos_start.ln + 1) \o "\n"
         \o (IF ftext # ""
             THEN LineOf(ftext, error.pos_start.ln, 1) \o "\n"
                  \o Spaces(error.pos_start.col) \o "^"
             ELSE "")
    ELSE error.kind \o ": " \o error.message

\* The standard library directory of the process: file name |-> text.  The
\* directory of the repository holds no .xor file; two module files are placed
\* in it so that an import has something to load.
StdlibFiles ==
    [f \in {"m.xor", "k.xor"} |-> IF f = "m.xor" THEN "var a = 1;" ELSE "var b = 2; print(b);"]

StartsWith(str, prefix) ==
    Len(str) >= Len(prefix) /\ SubSeq(str, 1, Len(prefix)) = prefix

EndsWith(str, suffix) ==
    Len(str) >= Len(suffix) /\ SubSeq(str, Len(str) - Len(suffix) + 1, Len(str)) = suffix

Contains(str, sub) ==
    \E i \in 1..(Len(str) - Len(sub) + 1) : SubSeq(str, i, i + Len(sub) - 1) = sub

\* The path of a module below stdlib_path, as _eval_ImportNode builds it.
ModulePath(module_name) ==
    LET relative_path == IF StartsWith(module_name, "stdlib/")
                         THEN SubSeq(module_name, 8, Len(module_name))
                         ELSE module_name
    IN  IF EndsWith(relative_path, ".xor") THEN relative_path
        ELSE relative_path \o ".xor"

MaxDepth == 3    \* nested calls of user functions in one evaluation
MaxLoop == 4     \* iterations of one loop

\* Interpreter.__init__ up to _install_builtins: globals, env, _method_cache,
\* and _stdlib_cache, the filenames whose AST is cached.
\* stdlib_ok says that stdlib_path names a directory.
NewInterpreter(st, stdlib_ok) ==
    LET st1 == NewEnvironment(st, 0)
        globals == Len(st1.envs)
    IN  [st1 EXCEPT !.interps = Append(@, [globals |-> globals, env |-> globals,
                                            _method_cache |-> EmptyMap,
                                            _stdlib_cache |-> {},
                                            stdlib_ok |-> stdlib_ok])]

\* _install_builtins, of which print is kept.
_install_builtins(st, self) ==
    Environment_define(st, st.interps[self].globals, "print", Builtin("print"))

Interpreter(st, stdlib_ok) ==
    LET st1 == NewInterpreter(st, stdlib_ok) IN _install_builtins(st1, Len(st1.interps))

\* func(*args) for a built-in function.
call_builtin(st, name, args) ==
    CASE name = "print" -> Ok([st EXCEPT !.stdout = Append(@, args)], PyNone)

-----------------------------------------------------------------------------
(* Interpreter.eval and the _eval_ methods.  self is the index of the      *)
(* Interpreter whose method runs, env the index of the environment, depth  *)
(* the number of nested user-function calls still allowed.                 *)

RECURSIVE eval(_, _, _, _, _)
RECURSIVE _eval_function_call(_, _, _, _, _)

\* for stmt in node.statements: result = self.eval(stmt, env)
RECURSIVE BlockLoop(_, _, _, _, _, _, _)
BlockLoop(self, stmts, i, env, st, result, depth) ==
    IF i > Len(stmts) THEN Ok(st, result)
    ELSE LET r == eval(self, stmts[i], env, st, depth) IN
         IF r.sig # "ok" THEN r
         ELSE BlockLoop(self, stmts, i + 1, env, r.st, r.v, depth)

_eval_BlockNode(self, node, env, st, depth) ==
    BlockLoop(self, node.statements, 1, env, st, PyNone, depth)

_eval_ExpressionStatementNode(self, node, env, st, depth) ==
    eval(self, node.expr, env, st, depth)

_eval_NumberNode(self, node, env, st, depth) ==
    Ok(st, Number(IF node.tok.type = "INT" THEN "int" ELSE "float", node.tok.n, node.tok.d))

_eval_StringNode(self, node, env, st, depth) == Ok(st, PyStr(node.tok.value))

_eval_BoolNode(self, node, env, st, depth) == Ok(st, PyBool(node.tok.value = "true"))

_eval_NullNode(self, node, env, st, depth) == Ok(st, PyNone)

_eval_VarAccessNode(self, node, env, st, depth) ==
    Environment_get(st, env, node.name_tok.value)

\* FunctionValue(method.name, method.params, method.body, Environment(method.closure))
\* with "this" defined in the new closure: the heap and the new function's index.
BindMethod(st, method, inst) ==
    LET st1 == NewEnvironment(st, st.funcs[method].closure)
        closure == Len(st1.envs)
        st2 == [st1 EXCEPT !.funcs = Append(@, [st.funcs[method] EXCEPT !.closure = closure])]
    IN  [st |-> Environment_define(st2, closure, "this", InstanceRef(inst)),
         func |-> Len(st2.funcs)]

CacheMember(st, self, cache_key, result) ==
    Ok([st EXCEPT !.interps[self]._method_cache = MapPut(@, cache_key, result)], result)

_eval_MemberAccessNode(self, node, env, st, depth) ==
    LET o == eval(self, node.obj_node, env, st, depth) IN
    IF o.sig # "ok" THEN o ELSE
    LET obj == o.v
        st1 == o.st
        member_name == node.member_tok.value
        cache_key == IF obj.k \in {"inst", "class"} THEN <<id(st1, obj), member_name>>
                     ELSE <<0, member_name>>
    IN
    IF obj.k \in {"inst", "class"} /\ cache_key \in DOMAIN st1.interps[self]._method_cache
    THEN Ok(st1, st1.interps[self]._method_cache[cache_key])
    ELSE IF obj.k = "inst"
    THEN LET fields == st1.insts[obj.n].fields
             members == st1.envs[st1.classes[st1.insts[obj.n].cls].members].values
         IN  IF member_name \in DOMAIN fields
             THEN CacheMember(st1, self, cache_key, fields[member_name])
             ELSE IF member_name \in DOMAIN members /\ members[member_name].k = "func"
             THEN LET b == BindMethod(st1, members[member_name].n, obj.n) IN
                  CacheMember(b.st, self, cache_key, FunctionRef(b.func))
             ELSE IF member_name \in DOMAIN members /\ members[member_name].k = "builtin"
             THEN CacheMember(st1, self, cache_key, members[member_name])
             ELSE RuntimeError(st1, "Undefined property '" \o member_name \o "'.")
    ELSE IF obj.k = "class"
    THEN LET members == st1.envs[st1.classes[obj.n].members].values IN
         IF member_name \in DOMAIN members
         THEN CacheMember(st1, self, cache_key, members[member_name])
         ELSE RuntimeError(st1, "'" \o st1.classes[obj.n].name
                                \o "' has no static member '" \o member_name \o "'")
    ELSE RuntimeError(st1, "Cannot access member of non-class value")

_eval_VarDeclNode(self, node, env, st, depth) ==
    LET r == IF IsNode(node.value_node) THEN eval(self, node.value_node, env, st, depth)
             ELSE Ok(st, PyNone)
    IN  IF r.sig # "ok" THEN r
        ELSE Ok(Environment_define(r.st, env, node.name_tok.value, r.v), r.v)

_eval_AssignNode(self, node, env, st, depth) ==
    IF node.target_node.type = "MemberAccessNode"
    THEN LET o == eval(self, node.target_node.obj_node, env, st, depth) IN
         IF o.sig # "ok" THEN o
         ELSE IF o.v.k = "inst"
         THEN LET r == eval(self, node.expr_node, env, o.st, depth) IN
              IF r.sig # "ok" THEN r
              ELSE Ok([r.st EXCEPT !.insts[o.v.n].fields =
                           MapPut(@, node.target_node.member_tok.value, r.v)], r.v)
         ELSE RuntimeError(o.st, "Cannot assign to member of non-instance")
    ELSE IF node.target_node.type = "VarAccessNode"
    THEN LET r == eval(self, node.expr_node, env, st, depth) IN
         IF r.sig # "ok" THEN r
         ELSE Ok(Environment_set(r.st, env, node.target_node.name_tok.value, r.v), r.v)
    ELSE RuntimeError(st, "Invalid assignment target")

_eval_ThisNode(self, node, env, st, depth) ==
    LET r == Environment_get(st, env, "this") IN
    IF r.sig = "error" THEN RuntimeError(r.st, "'this' is not defined in this context")
    ELSE r

_eval_UnaryOpNode(self, node, env, st, depth) ==
    LET r == eval(self, node.node, env, st, depth) IN
    IF r.sig # "ok" THEN r
    ELSE IF node.op_tok.type \notin {"PLUS", "MINUS"}
    THEN RuntimeError(r.st, "Unknown unary operator: " \o node.op_tok.type)
    ELSE IF ~IsNum(r.v) THEN HostException(r.st, "TypeError")
    ELSE Ok(r.st, Number(IF r.v.k = "float" THEN "float" ELSE "int",
                         IF node.op_tok.type = "MINUS" THEN 0 - r.v.n ELSE r.v.n, r.v.d))

_eval_BinOpNode(self, node, env, st, depth) ==
    LET left == eval(self, node.left, env, st, depth) IN
    IF left.sig # "ok" THEN left ELSE
    LET right == eval(self, node.right, env, left.st, depth) IN
    IF right.sig # "ok" THEN right
    ELSE BinOp(right.st, node.op_tok.type, left.v, right.v)

\* str(v) for None, bool, int and str; the text of other values is not modelled
\* and stands as the name of their kind.
str(v) ==
    CASE v.k = "None" -> "None"
      [] v.k = "bool" -> IF v.n = 1 THEN "True" ELSE "False"
      [] v.k = "int" -> ToString(v.n)
      [] v.k = "str" -> v.s
      [] OTHER -> "<" \o v.k \o ">"

\* [self.eval(arg, env) for arg in arg_nodes]: the outcome and the values.
RECURSIVE eval_args(_, _, _, _, _, _, _)
eval_args(self, arg_nodes, i, env, st, args, depth) ==
    IF i > Len(arg_nodes) THEN [r |-> Ok(st, PyNone), args |-> args]
    ELSE LET r == eval(self, arg_nodes[i], env, st, depth) IN
         IF r.sig # "ok" THEN [r |-> r, args |-> args]
         ELSE eval_args(self, arg_nodes, i + 1, env, r.st, Append(args, r.v), depth)

\* ClassValue.__call__ were it to return what the initializer returned.
ClassValue_call_ReturnsInit(self, st, cls, args, depth) ==
    LET st1 == With(Allocate(st, InstanceValue(cls)), LAMBDA new :
                   [new.st EXCEPT !.insts = Append(@, new.object)])
        instance == Len(st1.insts)
        members == st1.envs[st1.classes[cls].members].values
    IN  IF "init" \in DOMAIN members /\ members["init"].k = "func"
        THEN With(BindMethod(st1, members["init"].n, instance), LAMBDA b :
                 _eval_function_call(self, b.st, b.func, args, depth))
        ELSE Ok(st1, InstanceRef(instance))

\* ClassValue.__call__(interpreter, args)
ClassValue_call(self, st, cls, args, depth) ==
    LET st1 == With(Allocate(st, InstanceValue(cls)), LAMBDA new :
                   [new.st EXCEPT !.insts = Append(@, new.object)])
        instance == Len(st1.insts)
        members == st1.envs[st1.classes[cls].members].values
    IN  IF "init" \in DOMAIN members /\ members["init"].k = "func"
        THEN With(BindMethod(st1, members["init"].n, instance), LAMBDA b :
             With(_eval_function_call(self, b.st, b.func, args, depth), LAMBDA r :
                 IF r.sig # "ok" THEN r ELSE Ok(r.st, InstanceRef(instance))))
        ELSE Ok(st1, InstanceRef(instance))

_eval_CallNode(self, node, env, st, depth) ==
    LET callee == eval(self, node.callee_node, env, st, depth) IN
    IF callee.sig # "ok" THEN callee ELSE
    LET a == eval_args(self, node.arg_nodes, 1, env, callee.st, <<>>, depth) IN
    IF a.r.sig # "ok" THEN a.r
    ELSE IF callee.v.k = "builtin" THEN call_builtin(a.r.st, callee.v.s, a.args)
    ELSE IF callee.v.k = "func"
    THEN _eval_function_call(self, a.r.st, callee.v.n, a.args, depth)
    ELSE IF callee.v.k = "class" THEN ClassValue_call(self, a.r.st, callee.v.n, a.args, depth)
    ELSE RuntimeError(a.r.st, "'" \o str(callee.v) \o "' is not callable")

\* for param, arg in zip(callee.params, args): func_env.define(param, arg)
RECURSIVE BindParams(_, _, _, _, _)
BindParams(st, func_env, params, args, i) ==
    IF i > Len(params) \/ i > Len(args) THEN st
    ELSE BindParams(Environment_define(st, func_env, params[i], args[i]),
                    func_env, params, args, i + 1)

\* The call of a function that takes fewer arguments than it was given is let
\* through when only missing arguments are looked for.
ArityTooFew(callee, args) == Len(args) < Len(callee.params)

ArityMismatch(callee, args) == Len(args) # Len(callee.params)

\* func_env = Environment(callee.closure), the parameters defined in it, and
\* self.eval(callee.body, func_env): the outcome of the body, a ReturnSignal
\* included.
eval_function_body(self, st, func, args, depth) ==
    LET callee == st.funcs[func]
        st1 == NewEnvironment(st, callee.closure)
        func_env == Len(st1.envs)
    IN  eval(self, callee.body, func_env,
             BindParams(st1, func_env, callee.params, args, 1), depth - 1)

ArityMessage(callee, args) ==
    "Function '" \o (IF callee.name = "" THEN "None" ELSE callee.name)
    \o "' expects " \o ToString(Len(callee.params))
    \o " arguments, got " \o ToString(Len(args))

\* A call if it did not stop the ReturnSignal of its body.
_eval_function_call_Propagates(self, st, func, args, depth) ==
    LET callee == st.funcs[func] IN
    IF ArityMismatch(callee, args) THEN RuntimeError(st, ArityMessage(callee, args))
    ELSE IF depth = 0 THEN Hang(st)
    ELSE eval_function_body(self, st, func, args, depth)

_eval_function_call(self, st, func, args, depth) ==
    LET callee == st.funcs[func] IN
    IF ArityMismatch(callee, args) THEN RuntimeError(st, ArityMessage(callee, args))
    ELSE IF depth = 0 THEN Hang(st)
    ELSE With(eval_function_body(self, st, func, args, depth), LAMBDA r :
             IF r.sig = "return" THEN Ok(r.st, r.v) ELSE r)

\* for condition, body in node.cases: if self.eval(condition, env): ...
RECURSIVE IfCases(_, _, _, _, _, _)
IfCases(self, node, i, env, st, depth) ==
    IF i > Len(node.cases)
    THEN IF IsNode(node.else_case) THEN eval(self, node.else_case, env, st, depth)
         ELSE Ok(st, PyNone)
    ELSE LET c == eval(self, node.cases[i][1], env, st, depth) IN
         IF c.sig # "ok" THEN c
         ELSE IF Truthy(c.v) THEN eval(self, node.cases[i][2], env, c.st, depth)
         ELSE IfCases(self, node, i + 1, env, c.st, depth)

_eval_IfNode(self, node, env, st, depth) == IfCases(self, node, 1, env, st, depth)

\* while self.eval(node.cond_node, env): self.eval(node.body_block, env)
RECURSIVE WhileLoop(_, _, _, _, _, _)
WhileLoop(self, node, env, st, depth, iterations) ==
    LET c == eval(self, node.cond_node, env, st, depth) IN
    IF c.sig # "ok" THEN c
    ELSE IF ~Truthy(c.v) THEN Ok(c.st, PyNone)
    ELSE IF iterations = MaxLoop THEN Hang(c.st)
    ELSE LET b == eval(self, node.body_block, env, c.st, depth) IN
         IF b.sig # "ok" THEN b
         ELSE WhileLoop(self, node, env, b.st, depth, iterations + 1)

_eval_WhileNode(self, node, env, st, depth) == WhileLoop(self, node, env, st, depth, 0)

\* The "while True" loop of _eval_ForNode.
RECURSIVE ForLoop(_, _, _, _, _, _)
ForLoop(self, node, loop_env, st, depth, iterations) ==
    LET c == IF IsNode(node.cond_node) THEN eval(self, node.cond_node, loop_env, st, depth)
             ELSE Ok(st, PyBool(TRUE))
    IN
    IF c.sig # "ok" THEN c
    ELSE IF IsNode(node.cond_node) /\ ~Truthy(c.v) THEN Ok(c.st, PyNone)
    ELSE IF iterations = MaxLoop THEN Hang(c.st)
    ELSE LET b == eval(self, node.body_block, loop_env, c.st, depth) IN
         IF b.sig # "ok" THEN b ELSE
         LET u == IF IsNode(node.update_node)
                  THEN eval(self, node.update_node, loop_env, b.st, depth)
                  ELSE b
         IN  IF u.sig # "ok" THEN u
             ELSE IF ~IsNode(node.cond_node) THEN Ok(u.st, PyNone)
             ELSE ForLoop(self, node, loop_env, u.st, depth, iterations + 1)

_eval_ForNode(self, node, env, st, depth) ==
    LET st1 == NewEnvironment(st, env)
        loop_env == Len(st1.envs)
        init == IF IsNode(node.init_node) THEN eval(self, node.init_node, loop_env, st1, depth)
                ELSE Ok(st1, PyNone)
    IN  IF init.sig # "ok" THEN init
        ELSE ForLoop(self, node, loop_env, init.st, depth, 0)

\* Returns the heap and the new FunctionValue's index.
FuncDef(node, env, st) ==
    LET name == node.name_tok.value
        params == [i \in 1..Len(node.arg_name_toks) |-> node.arg_name_toks[i].value]
        st1 == [st EXCEPT !.funcs = Append(@, FunctionValue(name, params, node.body_block, env))]
        fn == Len(st1.funcs)
    IN  [st |-> IF name # "" THEN Environment_define(st1, env, name, FunctionRef(fn)) ELSE st1,
         func |-> fn]

_eval_FuncDefNode(self, node, env, st, depth) ==
    LET f == FuncDef(node, env, st) IN Ok(f.st, FunctionRef(f.func))

_eval_ReturnNode(self, node, env, st, depth) ==
    LET r == IF IsNode(node.expr_node) THEN eval(self, node.expr_node, env, st, depth)
             ELSE Ok(st, PyNone)
    IN  IF r.sig # "ok" THEN r ELSE ReturnSignal(r.st, r.v)

\* for member in node.members: fv = self._eval_FuncDefNode(member, class_env); ...
RECURSIVE ClassMembers(_, _, _, _)
ClassMembers(members, i, class_env, st) ==
    IF i > Len(members) THEN st
    ELSE LET f == FuncDef(members[i], class_env, st)
             name == members[i].name_tok.value
         IN  ClassMembers(members, i + 1, class_env,
                 IF name # "" THEN Environment_define(f.st, class_env, name, FunctionRef(f.func))
                 ELSE f.st)

\* ClassValue(name, class_env.values): the members dict is the values dict of
\* class_env, so a class records the index of its class_env.
_eval_ClassDefNode(self, node, env, st, depth) ==
    LET st1 == NewEnvironment(st, env)
        class_env == Len(st1.envs)
        st2 == ClassMembers(node.members, 1, class_env, st1)
        st3 == With(Allocate(st2, ClassValue(node.name_tok.value, class_env)), LAMBDA new :
                   [new.st EXCEPT !.classes = Append(@, new.object)])
        cls == ClassRef(Len(st3.classes))
    IN  Ok(Environment_define(st3, env, node.name_tok.value, cls), cls)

_eval_NewNode(self, node, env, st, depth) ==
    LET cls == Environment_get(st, env, node.class_name_tok.value) IN
    IF cls.sig # "ok" THEN cls
    ELSE IF cls.v.k # "class"
    THEN RuntimeError(cls.st, "'" \o node.class_name_tok.value \o "' is not a class.")
    ELSE LET a == eval_args(self, node.arg_nodes, 1, env, cls.st, <<>>, depth) IN
         IF a.r.sig # "ok" THEN a.r
         ELSE ClassValue_call(self, a.r.st, cls.v.n, a.args, depth)

\* _eval_module(module_path, source_code): lexes, parses and evaluates the
\* text in a new Environment() with self.env switched to it meanwhile.
_eval_module(self, module_path, source_code, st, depth) ==
    With(NewEnvironment(st, 0), LAMBDA st1 :
    With(make_tokens(source_code), LAMBDA lexed :
    IF lexed.error.kind # "None"
    THEN RuntimeError(st1, "Lexer error in module " \o module_path \o ": "
                           \o format_error(lexed.error, module_path, source_code))
    ELSE
    With(Parser_parse(lexed.tokens), LAMBDA ast :
    IF ast.raised # "" THEN HostException(st1, ast.raised)
    ELSE IF ast.error.kind # "None"
    THEN RuntimeError(st1, "Parser error in module " \o module_path \o ": "
                           \o format_error(ast.error, module_path, source_code))
    ELSE
    With(eval(self, ast.node, Len(st1.envs),
              [st1 EXCEPT !.interps[self].env = Len(st1.envs), !.module_evals = @ + 1],
              depth), LAMBDA r :
    IF r.sig # "ok" THEN [r EXCEPT !.st.interps[self].env = st.interps[self].env]
    ELSE Ok([r.st EXCEPT !.interps[self].env = st.interps[self].env],
            EnvRef(Len(st1.envs)))))))

_eval_ImportNode(self, node, env, st, depth) ==
    LET module_name == node.module_name.value
        module_path == ModulePath(module_name)
    IN  IF Contains(module_name, "..") \/ StartsWith(module_name, "/")
        THEN RuntimeError(st, "Import error: Invalid module path '" \o module_name \o "'")
        ELSE IF ~st.interps[self].stdlib_ok
        THEN RuntimeError(st, "Standard library path is not configured.")
        ELSE IF module_path \notin DOMAIN StdlibFiles
        THEN RuntimeError(st, "Import error: File '" \o module_name \o "' not found at '"
                              \o module_path \o "'")
        ELSE _eval_module(self, module_path, StdlibFiles[module_path], st, depth)

\* getattr(self, '_eval_' + type(node).__name__, self._generic_eval)(node, env)
eval_method(self, node, env, st, depth) ==
    CASE node.type = "BlockNode" -> _eval_BlockNode(self, node, env, st, depth)
      [] node.type = "ExpressionStatementNode" ->
             _eval_ExpressionStatementNode(self, node, env, st, depth)
      [] node.type = "NumberNode" -> _eval_NumberNode(self, node, env, st, depth)
      [] node.type = "StringNode" -> _eval_StringNode(self, node, env, st, depth)
      [] node.type = "BoolNode" -> _eval_BoolNode(self, node, env, st, depth)
      [] node.type = "NullNode" -> _eval_NullNode(self, node, env, st, depth)
      [] node.type = "VarAccessNode" -> _eval_VarAccessNode(self, node, env, st, depth)
      [] node.type = "MemberAccessNode" -> _eval_MemberAccessNode(self, node, env, st, depth)
      [] node.type = "VarDeclNode" -> _eval_VarDeclNode(self, node, env, st, depth)
      [] node.type = "AssignNode" -> _eval_AssignNode(self, node, env, st, depth)
      [] node.type = "ImportNode" -> _eval_ImportNode(self, node, env, st, depth)
      [] node.type = "ThisNode" -> _eval_ThisNode(self, node, env, st, depth)
      [] node.type = "UnaryOpNode" -> _eval_UnaryOpNode(self, node, env, st, depth)
      [] node.type = "BinOpNode" -> _eval_BinOpNode(self, node, env, st, depth)
      [] node.type = "CallNode" -> _eval_CallNode(self, node, env, st, depth)
      [] node.type = "IfNode" -> _eval_IfNode(self, node, env, st, depth)
      [] node.type = "WhileNode" -> _eval_WhileNode(self, node, env, st, depth)
      [] node.type = "ForNode" -> _eval_ForNode(self, node, env, st, depth)
      [] node.type = "FuncDefNode" -> _eval_FuncDefNode(self, node, env, st, depth)
      [] node.type = "ReturnNode" -> _eval_ReturnNode(self, node, env, st, depth)
      [] node.type = "ClassDefNode" -> _eval_ClassDefNode(self, node, env, st, depth)
      [] node.type = "NewNode" -> _eval_NewNode(self, node, env, st, depth)
      [] OTHER -> RuntimeError(st, "No evaluation method for " \o node.type)

\* Interpreter.eval(node, env): the method found for a node type is stored in
\* the class-level table _eval_methods as a method bound to the interpreter
\* that looked it up first, and is the one called from then on.
eval(self, node, env, st, depth) ==
    With(IF node.type \in DOMAIN st._eval_methods THEN st
         ELSE [st EXCEPT !._eval_methods = MapPut(@, node.type, self)], LAMBDA st1 :
        eval_method(st1._eval_methods[node.type], node, env, st1, depth))

-----------------------------------------------------------------------------
(* runner.py                                                                *)

\* What a call of _load_and_eval or run_program yields: the heap after it, and
\* either the returned pair (result, error), where has_error says that error
\* is a string and not None, or the exception that left the call (raised), or
\* nothing because the call does not end (returned = FALSE, raised = "").
Returned(st, result, error, has_error) ==
    [st |-> st, returned |-> TRUE, result |-> result, error |-> error,
     has_error |-> has_error, raised |-> ""]

Raised(st, exception) ==
    [st |-> st, returned |-> FALSE, result |-> PyNone, error |-> "",
     has_error |-> FALSE, raised |-> exception]

NotReturned(st) ==
    [st |-> st, returned |-> FALSE, result |-> PyNone, error |-> "",
     has_error |-> FALSE, raised |-> ""]

\* The pair _load_and_eval returns after interpreter.eval gave the outcome r.
eval_outcome(r) ==
    CASE r.sig = "ok" -> Returned(r.st, r.v, "", FALSE)
      [] r.sig = "error" -> Returned(r.st, PyNone, "RuntimeError: " \o r.msg, TRUE)
      [] r.sig = "return" ->
             Returned(r.st, PyNone, "RuntimeError: 'return' used outside of a function", TRUE)
      [] r.sig = "host" -> Returned(r.st, PyNone, "Unexpected error: " \o r.msg, TRUE)
      [] r.sig = "hang" -> NotReturned(r.st)

_load_and_eval(st, interpreter, path, src) ==
    With(lex_run(src), LAMBDA lexed :
    IF lexed.error.kind # "None"
    THEN Returned(st, PyNone, format_error(lexed.error, path, src), TRUE)
    ELSE
    With(Parser_parse(lexed.tokens), LAMBDA parse_result :
    IF parse_result.raised # "" THEN Raised(st, parse_result.raised)
    ELSE IF parse_result.error.kind # "None"
    THEN Returned(st, PyNone, format_error(parse_result.error, path, src), TRUE)
    ELSE With(eval(interpreter, parse_result.node, st.interps[interpreter].env, st, MaxDepth),
              eval_outcome)))

\* run_program(filename, source_code): a new Interpreter, whose stdlib_path is
\* the directory _find_stdlib_path found.
run_program(st, filename, source_code) ==
    With(Interpreter(st, TRUE), LAMBDA st1 :
        _load_and_eval(st1, Len(st1.interps), filename, source_code))

NoOp == [op |-> "none", env |-> 0, name |-> "", v |-> PyNone, sig |-> "ok"]

-----------------------------------------------------------------------------
(* The memory of the process.  An object that nothing reachable from the   *)
(* interpreters refers to is collected by the Python runtime, and its      *)
(* address may be given to an object created later.  The model makes that  *)
(* choice between two statements of the top level: the next object created *)
(* gets the address of one collected object, or a new address.             *)

\* The object a value refers to.
Referent(v) == IF v.k \in {"env", "func", "class", "inst"} THEN {<<v.k, v.n>>} ELSE {}

\* The objects the values of the dict f refer to.
Referents(f) == UNION {Referent(f[x]) : x \in DOMAIN f}

\* The objects the object o holds a reference to: an Environment its parent,
\* its values and the values of its _cache, a FunctionValue its closure, a
\* ClassValue its members, an InstanceValue its class and its fields.
References(st, o) ==
    CASE o[1] = "env" ->
           (IF st.envs[o[2]].parent # 0 THEN {<<"env", st.envs[o[2]].parent>>} ELSE {})
           \cup Referents(st.envs[o[2]].values)
           \cup UNION {Referent(st.envs[o[2]]._cache[x].value) :
                          x \in DOMAIN st.envs[o[2]]._cache}
      [] o[1] = "func" -> {<<"env", st.funcs[o[2]].closure>>}
      [] o[1] = "class" -> Referents(st.envs[st.classes[o[2]].members].values)
      [] o[1] = "inst" ->
           {<<"class", st.insts[o[2]].cls>>} \cup Referents(st.insts[o[2]].fields)

\* The objects reachable from the objects of seen.
RECURSIVE Reachable(_, _)
Reachable(st, seen) ==
    With(UNION {References(st, o) : o \in seen} \ seen, LAMBDA more :
        IF more = {} THEN seen ELSE Reachable(st, seen \cup more))

\* What the interpreters hold: globals, env and the values of _method_cache.
Roots(st) ==
    UNION {{<<"env", st.interps[i].globals>>, <<"env", st.interps[i].env>>}
           \cup Referents(st.interps[i]._method_cache) : i \in 1..Len(st.interps)}

\* The addresses of the objects that are alive when the caller holds the
\* values of held besides.
LiveIds(st, held) ==
    {id(st, [k |-> o[1], n |-> o[2]]) :
        o \in {r \in Reachable(st, Roots(st) \cup UNION {Referent(v) : v \in held}) :
                  r[1] \in {"class", "inst"}}}

\* The addresses that have been handed out and belong to no object alive.
DeadIds(st, held) == (1..st.ids) \ LiveIds(st, held)

\* The heaps the next statement may start from: the allocator has a collected
\* address to hand out first, or has none.
Recycled(st, held) ==
    {[st EXCEPT !.free = <<>>]} \cup {[st EXCEPT !.free = <<a>>] : a \in DeadIds(st, held)}

-----------------------------------------------------------------------------
(* Specification SpecEnv: the Environment class driven through its public  *)
(* methods, on environments linked into scope chains.                      *)

EnvNames == {"x", "y"}

\* The value written by the n-th operation: writes store pairwise distinct
\* values, so that a value read identifies the write it comes from.
EnvVal(n) == PyInt(n)

InitEnv ==
    /\ interp = NewEnvironment(EmptyHeap, 0)
    /\ last = NoOp
    /\ steps = 0

EnvNew ==
    \E p \in 1..Len(interp.envs) :
        /\ Len(interp.envs) < MaxEnvs
        /\ interp' = NewEnvironment(interp, p)
        /\ last' = [NoOp EXCEPT !.op = "new", !.env = p]
        /\ UNCHANGED steps

EnvDefine ==
    \E e \in 1..Len(interp.envs), name \in EnvNames :
        /\ steps < MaxOps
        /\ interp' = Environment_define(interp, e, name, EnvVal(steps + 1))
        /\ last' = [op |-> "define", env |-> e, name |-> name,
                    v |-> EnvVal(steps + 1), sig |-> "ok"]
        /\ steps' = steps + 1

EnvSet ==
    \E e \in 1..Len(interp.envs), name \in EnvNames :
        /\ steps < MaxOps
        /\ interp' = Environment_set(interp, e, name, EnvVal(steps + 1))
        /\ last' = [op |-> "set", env |-> e, name |-> name,
                    v |-> EnvVal(steps + 1), sig |-> "ok"]
        /\ steps' = steps + 1

EnvGet ==
    \E e \in 1..Len(interp.envs), name \in EnvNames :
        /\ steps < MaxOps
        /\ LET r == Environment_get(interp, e, name) IN
            /\ interp' = r.st
            /\ last' = [op |-> "get", env |-> e, name |-> name, v |-> r.v, sig |-> r.sig]
        /\ steps' = steps + 1

NextEnv == EnvNew \/ EnvDefine \/ EnvSet \/ EnvGet

SpecEnv == InitEnv /\ [][NextEnv]_vars

\* The value a lookup of name from environment e must produce: the binding of
\* the nearest environment of e's parent chain that binds name.
NearestBinding(st, e, name) ==
    st.envs[Environment_resolve(st, e, name)].values[name]

\* C2: get(name) on E returns the value most recently stored for name in the
\* nearest environment of E's parent chain that binds it (get leaves every
\* binding as it was, so right after a get the value returned is compared with
\* the bindings of the state).
C2_GetReturnsNearestBinding ==
    (last.op = "get" /\ Environment_resolve(interp, last.env, last.name) # 0)
        => (last.sig = "ok" /\ last.v = NearestBinding(interp, last.env, last.name))

-----------------------------------------------------------------------------
(* Specification SpecCall: user-defined functions of one interpreter called *)
(* through _eval_function_call with argument lists of every length.         *)

MaxCalls == 2    \* calls made in one behaviour
MaxArgs == 3     \* length of the longest argument list

\* The functions the calls are made on: with an empty body, with a body that
\* ends in an expression statement, in a declaration, in a return, and a body
\* that prints and assigns a global.
CallPrelude ==
    "var g = 0; func n(){} func v(a){ a; } func d(a, b){ var y = b; } "
    \o "func r(a){ return a; } func p(a){ print(a); g = a; }"

NoCall ==
    [op |-> "none", func |-> 0, args |-> <<>>, v |-> PyNone, sig |-> "ok", msg |-> "",
     body_sig |-> "none", before |-> EmptyHeap]

InitCall ==
    /\ interp = _load_and_eval(Interpreter(EmptyHeap, TRUE), 1, "<prelude>", CallPrelude).st
    /\ last = NoCall
    /\ steps = 0

\* The argument list of length n.
CallArgs(n) == [i \in 1..n |-> PyInt(i)]

\* interpreter._eval_function_call(callee, args).  body_sig records how the
\* body ended when it was evaluated: "ok" when it ran to its end, "return"
\* when a return statement was executed.
Call ==
    \E func \in 1..Len(interp.funcs), n \in 0..MaxArgs :
        /\ steps < MaxCalls
        /\ With(_eval_function_call(1, interp, func, CallArgs(n), MaxDepth), LAMBDA r :
               /\ interp' = r.st
               /\ last' = [op |-> "call", func |-> func, args |-> CallArgs(n), v |-> r.v,
                           sig |-> r.sig, msg |-> r.msg,
                           body_sig |-> IF n = Len(interp.funcs[func].params)
                                        THEN eval_function_body(1, interp, func, CallArgs(n),
                                                                MaxDepth).sig
                                        ELSE "none",
                           before |-> interp])
        /\ steps' = steps + 1

NextCall == Call

SpecCall == InitCall /\ [][NextCall]_vars

\* C1: a call whose body finished without executing a return statement yields
\* Null, whatever the value of the last statement of the body.
C1_NoReturnYieldsNull ==
    (last.op = "call" /\ last.sig = "ok" /\ last.body_sig = "ok") => last.v = PyNone

\* C9: a call with a number of arguments different from the number of
\* parameters ends in a RuntimeError that names the expected and the received
\* count and leaves the heap as it was (no environment created, no parameter
\* bound, no statement of the body run); a call with exactly as many arguments
\* as parameters does not end in that error.
C9_ArityMismatchRaisesFirst ==
    last.op = "call" =>
        LET params == last.before.funcs[last.func].params IN
        IF Len(last.args) # Len(params)
        THEN /\ last.sig = "error"
             /\ Contains(last.msg, "expects " \o ToString(Len(params)) \o " arguments")
             /\ Contains(last.msg, "got " \o ToString(Len(last.args)))
             /\ interp = last.before
        ELSE ~(last.sig = "error" /\ Contains(last.msg, "expects"))

\* A function of one parameter has been called with two arguments and the
\* call has ended in an error.
C9_Witness ==
    /\ last.op = "call"
    /\ Len(last.before.funcs[last.func].params) = 1
    /\ Len(last.args) = 2
    /\ last.sig = "error"

-----------------------------------------------------------------------------
(* Specification SpecArith: programs of one binary operation on two        *)
(* literals, run by run_program of the package (xorlang.core) and by the    *)
(* interpreter of src/interpreter.py that src/main.py runs.                 *)

\* src/interpreter.py, Interpreter._eval_BinOpNode, on the values l and r of
\* the operands: the operator is applied by Python without a test of r.
legacy_eval_BinOpNode(st, t, l, r) ==
    CASE t = "DIV" ->
           IF ~(IsNum(l) /\ IsNum(r)) THEN HostException(st, "TypeError")
           ELSE IF r.n = 0 THEN HostException(st, "ZeroDivisionError")
           ELSE Ok(st, Number("float", l.n * r.d, l.d * r.n))
      [] t \in {"PLUS", "MINUS", "MUL", "EE", "NE", "LT", "GT", "LTE", "GTE"} ->
           BinOp(st, t, l, r)
      [] OTHER -> [st |-> st, v |-> PyNone, sig |-> "error", msg |-> "Unknown binary operator"]

\* src/interpreter.py, run_program, from the evaluation of the program on: a
\* RuntimeError and a ReturnSignal become the error of the pair, every other
\* exception leaves run_program.
legacy_run_program(r) ==
    CASE r.sig = "ok" -> Returned(r.st, r.v, "", FALSE)
      [] r.sig = "error" -> Returned(r.st, PyNone, "RuntimeError: " \o r.msg, TRUE)
      [] r.sig = "return" ->
             Returned(r.st, PyNone, "RuntimeError: 'return' used outside of a function", TRUE)
      [] r.sig = "host" -> Raised(r.st, r.msg)

MaxRuns == 1     \* programs run in one behaviour

\* The literals the operations are made of, with the value each one denotes.
Operands ==
    {[text |-> "7", v |-> PyInt(7)], [text |-> "2", v |-> PyInt(2)],
     [text |-> "0", v |-> PyInt(0)], [text |-> "2.5", v |-> Number("float", 5, 2)],
     [text |-> "0.0", v |-> Number("float", 0, 1)],
     [text |-> "true", v |-> PyBool(TRUE)], [text |-> "false", v |-> PyBool(FALSE)]}

Operators == [DIV |-> "/", MOD |-> "%", MUL |-> "*"]

NoRun ==
    [op |-> "none", impl |-> "", src |-> "", l |-> PyNone, t |-> "", r |-> PyNone,
     returned |-> FALSE, result |-> PyNone, error |-> "", has_error |-> FALSE, raised |-> ""]

\* The record of a run: what was run and what the run gave back.
RunOf(impl, src, l, t, r, out) ==
    [op |-> "arith", impl |-> impl, src |-> src, l |-> l, t |-> t, r |-> r,
     returned |-> out.returned, result |-> out.result, error |-> out.error,
     has_error |-> out.has_error, raised |-> out.raised]

\* The text of the operation t on the literals l and r.
ArithSource(l, t, r) == l.text \o " " \o Operators[t] \o " " \o r.text

InitArith ==
    /\ interp = EmptyHeap
    /\ last = NoRun
    /\ steps = 0

\* run_program("<stdin>", "l op r;") of xorlang.core.runner in a new process.
ArithCore ==
    \E l \in Operands, r \in Operands, t \in DOMAIN Operators :
        /\ steps < MaxRuns
        /\ With(run_program(EmptyHeap, "<stdin>", ArithSource(l, t, r) \o ";"), LAMBDA out :
               /\ interp' = out.st
               /\ last' = RunOf("core", ArithSource(l, t, r) \o ";", l.v, t, r.v, out))
        /\ steps' = steps + 1

\* run_program of src/interpreter.py on "l op r" with two number literals,
\* from the evaluation of the BinOpNode on.
ArithLegacy ==
    \E l \in Operands, r \in Operands, t \in {"DIV", "MUL"} :
        /\ steps < MaxRuns
        /\ l.v.k \in {"int", "float"}
        /\ r.v.k \in {"int", "float"}
        /\ With(legacy_run_program(legacy_eval_BinOpNode(EmptyHeap, t, l.v, r.v)),
                LAMBDA out :
               /\ interp' = out.st
               /\ last' = RunOf("legacy", ArithSource(l, t, r), l.v, t, r.v, out))
        /\ steps' = steps + 1

NextArith == ArithCore \/ ArithLegacy

SpecArith == InitArith /\ [][NextArith]_vars

\* C7: left / right with right equal to zero yields no value and lets no host
\* exception escape: run returns a pair whose error holds "Division by zero".
C7_DivisionByZeroIsRuntimeError ==
    (last.op = "arith" /\ last.t = "DIV" /\ last.r \in {PyInt(0), Number("float", 0, 1)})
        => /\ last.returned
           /\ last.raised = ""
           /\ last.has_error
           /\ last.result = PyNone
           /\ Contains(last.error, "Division by zero")

\* C8: for integer operands a and b the program "a % b;" is no syntax error;
\* it evaluates to a mod b when b is not zero and ends in the RuntimeError
\* "Modulo by zero" when b is zero.
C8_ModuloParsesAndEvaluates ==
    (last.op = "arith" /\ last.impl = "core" /\ last.t = "MOD"
        /\ last.l.k = "int" /\ last.r.k = "int")
        => /\ last.returned
           /\ ~Contains(last.error, "Syntax error")
           /\ IF last.r.n = 0
              THEN last.has_error /\ Contains(last.error, "Modulo by zero")
              ELSE ~last.has_error /\ last.result = PyInt(last.l.n % last.r.n)

-----------------------------------------------------------------------------
(* Specification SpecMember: one interpreter fed one line at a time, as the *)
(* interactive shell feeds it; the lines read and assign the members of an  *)
(* instance.                                                                *)

MaxMemberOps == 3    \* lines evaluated in one behaviour

MemberPrelude ==
    "class C { func init(v){ this.v = v; } func m(){ return 1; } } var c = new C(7);"

\* v is a field the constructor assigns, m a method of the class, w neither.
MemberNames == {"v", "m", "w"}

\* The value the n-th line assigns: assignments store pairwise distinct values.
MemberVal(n) == 10 + n

\* assigned maps a field name to the value of the most recent assignment c.f = v.
NoMember ==
    [op |-> "none", f |-> "", returned |-> FALSE, result |-> PyNone, error |-> "",
     has_error |-> FALSE, raised |-> "", assigned |-> MapPut(EmptyMap, "v", PyInt(7))]

\* The record of a line: what it did and what _load_and_eval gave back.
MemberOp(op, f, out, assigned) ==
    [op |-> op, f |-> f, returned |-> out.returned, result |-> out.result,
     error |-> out.error, has_error |-> out.has_error, raised |-> out.raised,
     assigned |-> assigned]

InitMember ==
    /\ interp = _load_and_eval(Interpreter(EmptyHeap, TRUE), 1, "<interactive>",
                               MemberPrelude).st
    /\ last = NoMember
    /\ steps = 0

\* The line "c.f;"
ReadMember ==
    \E f \in MemberNames :
        /\ steps < MaxMemberOps
        /\ With(_load_and_eval(interp, 1, "<interactive>", "c." \o f \o ";"), LAMBDA out :
               /\ interp' = out.st
               /\ last' = MemberOp("read", f, out, last.assigned))
        /\ steps' = steps + 1

\* The line "c.f = n;"
AssignMember ==
    \E f \in MemberNames :
        /\ steps < MaxMemberOps
        /\ With(_load_and_eval(interp, 1, "<interactive>",
                               "c." \o f \o " = " \o ToString(MemberVal(steps)) \o ";"),
                LAMBDA out :
               /\ interp' = out.st
               /\ last' = MemberOp("assign", f, out,
                                   IF out.has_error THEN last.assigned
                                   ELSE MapPut(last.assigned, f, PyInt(MemberVal(steps)))))
        /\ steps' = steps + 1

NextMember == ReadMember \/ AssignMember

SpecMember == InitMember /\ [][NextMember]_vars

\* C3: a read c.f of a field that has been assigned returns the value of the
\* most recent assignment c.f = v, also when the field (or a method of the
\* same name) had been read before that assignment.
C3_ReadReturnsLastAssignment ==
    (last.op = "read" /\ last.f \in DOMAIN last.assigned)
        => /\ last.returned
           /\ ~last.has_error
           /\ last.result = last.assigned[last.f]

-----------------------------------------------------------------------------
(* Specification SpecRun: a process that runs one program with run_program, *)
(* and then imports modules through the interpreter run_program created.    *)

MaxImports == 2      \* imports made after the program

\* for(init; cond; update){ body }
ForInits == {"", "var i = 0"}

ForConds == {"", "i < 2"}

ForUpdates == {"", "i = i + 1", "print(2)"}

ForBodies == {"", "print(1);"}

ForSource(init, cond, update, body) ==
    "for(" \o init \o "; " \o cond \o "; " \o update \o "){ " \o body \o " }"

\* What one iteration of the loop writes: the body's output, then the update's.
OneIteration(update, body) ==
    (IF body = "print(1);" THEN <<(<<PyInt(1)>>)>> ELSE <<>>)
    \o (IF update = "print(2)" THEN <<(<<PyInt(2)>>)>> ELSE <<>>)

\* A declaration of name inside a nested block, after "var x = 1;" and before
\* a read of x.
BlockKinds == {"bare", "if", "while"}

BlockNames == {"x", "y"}

BlockSource(kind, name) ==
    "var x = 1; "
    \o (CASE kind = "bare" -> "{ var " \o name \o " = 2; }"
          [] kind = "if" -> "if (true) { var " \o name \o " = 2; }"
          [] kind = "while" ->
                 "var i = 0; while (i < 1) { var " \o name \o " = 2; i = i + 1; }")
    \o " x;"

\* Other source texts.
Texts ==
    {"", "null;", "1;", "x;", "1 +", "@", "return 1;", "print(1);", "var x;",
     "1 - 2;", "func f(){ } f();", "func f(){ return 2; } f();"}

\* The names given to import: two modules of the library, one of them also by
\* its path below stdlib/, and a module that does not exist.  The module k
\* calls print, which its environment, a root one, does not bind.
ImportNames == {"m", "k", "stdlib/m", "q"}

\* imported maps each module file the process has imported to the namespace
\* its first import returned, again says that the file of this import was one
\* of them, before is the heap the import started from.
NoProgram ==
    [op |-> "none", src |-> "", parts |-> <<>>, returned |-> FALSE, result |-> PyNone,
     error |-> "", has_error |-> FALSE, raised |-> "", imported |-> EmptyMap, again |-> FALSE,
     before |-> EmptyHeap]

\* The record of a run of run_program.
ProgramRun(op, src, parts, out) ==
    [op |-> op, src |-> src, parts |-> parts, returned |-> out.returned,
     result |-> out.result, error |-> out.error, has_error |-> out.has_error,
     raised |-> out.raised, imported |-> EmptyMap, again |-> FALSE, before |-> EmptyHeap]

InitRun ==
    /\ interp = EmptyHeap
    /\ last = NoProgram
    /\ steps = 0

\* run_program("<stdin>", src) for the program src, the first thing the process does.
Run(op, src, parts) ==
    /\ last.op = "none"
    /\ With(run_program(interp, "<stdin>", src), LAMBDA out :
           /\ interp' = out.st
           /\ last' = ProgramRun(op, src, parts, out))
    /\ steps' = steps + 1

RunFor ==
    \E init \in ForInits, cond \in ForConds, update \in ForUpdates, body \in ForBodies :
        Run("for", ForSource(init, cond, update, body), <<init, cond, update, body>>)

RunBlock ==
    \E kind \in BlockKinds, name \in BlockNames :
        Run("block", BlockSource(kind, name), <<kind, name>>)

RunText == \E src \in Texts : Run("text", src, <<>>)

\* The record of interpreter.eval(ImportNode(name), env) with outcome r.
ImportOf(name, r, imported, before) ==
    [op |-> "import", src |-> name, parts |-> <<ModulePath(name)>>,
     returned |-> r.sig \in {"ok", "return"}, result |-> r.v,
     error |-> IF r.sig = "error" THEN r.msg ELSE "", has_error |-> r.sig = "error",
     raised |-> IF r.sig = "host" THEN r.msg ELSE "",
     imported |-> IF r.sig = "ok" /\ ModulePath(name) \notin DOMAIN imported
                  THEN MapPut(imported, ModulePath(name), r.v)
                  ELSE imported,
     again |-> ModulePath(name) \in DOMAIN imported, before |-> before]

\* interpreter.eval(ImportNode(name), interpreter.env) on the interpreter of
\* the process.
Import ==
    \E name \in ImportNames :
        /\ last.op # "none"
        /\ steps < 1 + MaxImports
        /\ With(eval(1, ImportNode(Token("STRING", name, 0, 1, NoPos, NoPos)),
                     interp.interps[1].env, interp, MaxDepth), LAMBDA r :
               /\ interp' = r.st
               /\ last' = ImportOf(name, r, last.imported, interp))
        /\ steps' = steps + 1

NextRun == RunFor \/ RunBlock \/ RunText \/ Import

SpecRun == InitRun /\ [][NextRun]_vars

\* C4: a var declaration executed inside a nested block (a bare block, the
\* body of an if or of a while) does not reach the enclosing scope: after the
\* block, x still reads 1, the value it had before the block.
C4_ShadowDoesNotLeak ==
    last.op = "block"
        => /\ last.returned
           /\ ~last.has_error
           /\ last.result = PyInt(1)

\* C5: an import of a module file the process has imported before evaluates
\* no module body, writes nothing, and returns the namespace that the first
\* import of the file returned.
C5_ImportExecutesOnce ==
    (last.op = "import" /\ last.again)
        => /\ last.returned
           /\ interp.module_evals = last.before.module_evals
           /\ interp.stdout = last.before.stdout
           /\ last.result = last.imported[last.parts[1]]

\* C6: run returns a pair (result, error) in which exactly one of the two is
\* present.
C6_ExactlyOneOfResultAndError ==
    last.op \in {"for", "block", "text"}
        => /\ last.returned
           /\ last.has_error # (last.result # PyNone)

\* C10: a for loop without a condition is accepted by the parser and runs its
\* body exactly once, then its update clause once, and ends without an error.
C10_NoConditionRunsOnce ==
    (last.op = "for" /\ last.parts[2] = "")
        => /\ last.returned
           /\ ~last.has_error
           /\ last.raised = ""
           /\ interp.stdout = OneIteration(last.parts[3], last.parts[4])

-----------------------------------------------------------------------------
(* Specification SpecLoop: programs of one for loop with a condition, whose *)
(* body adds to a variable declared before the loop, run by run_program.    *)

MaxLimit == 3    \* the largest value the loop condition compares with

\* The loop counts in s, a global or a local of the function the loop is in.
LoopScopes == {"global", "func"}

LoopInits == {"", "var i = 0"}

LoopUpdates == {"", "i = i + 1"}

LoopSteps == {1, 2}

LoopStarts == {0, 1}

\* var s = start; for(init; s < limit; update){ s = s + step; } s;
LoopSource(scope, init, update, start, limit, step) ==
    With("var s = " \o ToString(start) \o "; for(" \o init \o "; s < " \o ToString(limit)
         \o "; " \o update \o "){ s = s + " \o ToString(step) \o "; } ",
         LAMBDA loop : IF scope = "global" THEN loop \o "s;"
                       ELSE "func f(){ " \o loop \o "return s; } f();")

\* The value of s when s < limit first fails, each execution of the body having
\* added step to it.
RECURSIVE Accumulated(_, _, _)
Accumulated(s, limit, step) ==
    IF s < limit THEN Accumulated(s + step, limit, step) ELSE s

NoLoop ==
    [op |-> "none", src |-> "", init |-> "", update |-> "", expected |-> 0,
     returned |-> FALSE, result |-> PyNone, error |-> "", has_error |-> FALSE, raised |-> ""]

\* The record of a run of a loop program.
LoopRun(src, init, update, expected, out) ==
    [op |-> "loop", src |-> src, init |-> init, update |-> update, expected |-> expected,
     returned |-> out.returned, result |-> out.result, error |-> out.error,
     has_error |-> out.has_error, raised |-> out.raised]

InitLoop ==
    /\ interp = EmptyHeap
    /\ last = NoLoop
    /\ steps = 0

\* run_program("<stdin>", src) for a loop program, in a new process.
RunLoop ==
    \E scope \in LoopScopes, init \in LoopInits, update \in LoopUpdates,
       start \in LoopStarts, limit \in 0..MaxLimit, step \in LoopSteps :
        /\ steps = 0
        /\ With(run_program(EmptyHeap, "<stdin>",
                            LoopSource(scope, init, update, start, limit, step)),
                LAMBDA out :
               /\ interp' = out.st
               /\ last' = LoopRun(LoopSource(scope, init, update, start, limit, step),
                                  init, update, Accumulated(start, limit, step), out))
        /\ steps' = steps + 1

NextLoop == RunLoop

SpecLoop == InitLoop /\ [][NextLoop]_vars

\* C11: a for loop with a condition, whose body adds to a variable of an
\* enclosing scope until the condition becomes false, terminates with the
\* accumulated value, whether or not the loop has an init or an update clause.
C11_LoopEndsWithAccumulatedValue ==
    last.op = "loop"
        => /\ last.returned
           /\ ~last.has_error
           /\ last.result = PyInt(last.expected)

-----------------------------------------------------------------------------
(* Specification SpecClass: one interpreter fed one line at a time, as the  *)
(* interactive shell feeds it; the lines instantiate two classes, call      *)
(* their methods and read variables and members, defined and undefined.     *)

MaxLines == 3    \* lines evaluated in one behaviour

\* init assigns the field a when its argument is true, m assigns a variable of
\* its own name, s uses no this.
ClassPrelude ==
    "class C { func init(v){ if (v) { this.a = 1; } } func m(){ m = 5; return 1; } "
    \o "func s(x){ return x; } } class D { }"

\* Reads of a variable that no environment binds and of members that are
\* neither a field of the instance nor a member of its class.
UndefinedReads == {"x;", "new C(0).a;", "new D().a;", "new C(1).w;"}

\* Reads of the member s of the class C, and calls of it.
StaticReads == {"C.s;", "C.s(3);"}

\* Reads of a name that is no member of the class.
NonMemberReads == {"C.z;", "class E { } E.a;"}

ClassLines ==
    UndefinedReads \cup StaticReads \cup NonMemberReads
    \cup {"new C(1).a;", "new C(0).m();", "new D();", "C.m;"}

\* The heap after the two class definitions.
ClassHeap ==
    _load_and_eval(Interpreter(EmptyHeap, TRUE), 1, "<interactive>", ClassPrelude).st

NoLine ==
    [op |-> "none", src |-> "", returned |-> FALSE, result |-> PyNone, error |-> "",
     has_error |-> FALSE, raised |-> "", before |-> EmptyHeap]

\* The record of a line: its text, what _load_and_eval gave back and the heap
\* it started from.
LineOp(src, out, before) ==
    [op |-> "line", src |-> src, returned |-> out.returned, result |-> out.result,
     error |-> out.error, has_error |-> out.has_error, raised |-> out.raised,
     before |-> before]

InitClass ==
    /\ interp = ClassHeap
    /\ last = NoLine
    /\ steps = 0

\* One turn of run_interactive's loop: result still holds the value of the
\* line before while _load_and_eval evaluates this one.
ClassLine ==
    \E src \in ClassLines, heap \in Recycled(interp, {last.result}) :
        /\ steps < MaxLines
        /\ With(_load_and_eval(heap, 1, "<interactive>", src), LAMBDA out :
               /\ interp' = out.st
               /\ last' = LineOp(src, out, heap))
        /\ steps' = steps + 1

NextClass == ClassLine

SpecClass == InitClass /\ [][NextClass]_vars

\* The member map of the ClassValue cls of heap st.
Members(st, cls) == st.envs[st.classes[cls].members].values

\* C13: the member map of a class is, after any sequence of lines, the one the
\* evaluation of its ClassDef built: no member added, removed or replaced.
C13_MembersNeverChange ==
    \A cls \in 1..Len(ClassHeap.classes) : Members(interp, cls) = Members(ClassHeap, cls)

\* C14: a read of a variable that no environment of the scope chain binds, or
\* of a member that is neither a field of the instance nor a member of its
\* class, ends in the RuntimeError "Undefined variable" / "Undefined
\* property" and yields no value.
C14_UndefinedReadRaises ==
    (last.op = "line" /\ last.src \in UndefinedReads)
        => /\ last.returned
           /\ last.has_error
           /\ last.result = PyNone
           /\ \/ Contains(last.error, "Undefined variable")
              \/ Contains(last.error, "Undefined property")

\* C15: C.s on the class C yields the member s of C and creates no instance,
\* C.s(3) runs the body of s with the argument 3, and a read of a name that is
\* no member of the class ends in a RuntimeError.
C15_StaticMemberAccess ==
    /\ (last.op = "line" /\ last.src = "C.s;")
          => /\ last.returned /\ ~last.has_error
             /\ last.result = Members(last.before, 1)["s"]
             /\ interp.insts = last.before.insts
    /\ (last.op = "line" /\ last.src = "C.s(3);")
          => /\ last.returned /\ ~last.has_error
             /\ last.result = PyInt(3)
             /\ interp.insts = last.before.insts
    /\ (last.op = "line" /\ last.src \in NonMemberReads)
          => /\ last.returned /\ last.has_error
             /\ Contains(last.error, "RuntimeError")

-----------------------------------------------------------------------------
(* Specification SpecNew: one interpreter fed lines that instantiate three  *)
(* classes, with new and by calling the class, with zero to two arguments.  *)

MaxNews == 2     \* instantiations made in one behaviour

\* The init of C takes one argument, stores it, prints it and returns 5; D has
\* no init; the init of F takes no argument and returns 5.
NewPrelude ==
    "class C { func init(v){ this.v = v; print(v); return 5; } } "
    \o "class D { func m(){ return 1; } } class F { func init(){ return 5; } }"

\* The classes, in the order of their definition.
NewClasses == <<"C", "D", "F">>

NewForms == {"new ", ""}

\* The argument lists, as written and as values.
NewArgs == {[text |-> "", args |-> <<>>], [text |-> "7", args |-> <<PyInt(7)>>],
            [text |-> "7, 8", args |-> <<PyInt(7), PyInt(8)>>]}

NoNew ==
    [op |-> "none", cls |-> 0, args |-> <<>>, returned |-> FALSE, result |-> PyNone,
     error |-> "", has_error |-> FALSE, raised |-> "", before |-> EmptyHeap]

\* The record of an instantiation: the class, the arguments, what
\* _load_and_eval gave back and the heap the line started from.
NewOp(cls, args, out, before) ==
    [op |-> "new", cls |-> cls, args |-> args, returned |-> out.returned,
     result |-> out.result, error |-> out.error, has_error |-> out.has_error,
     raised |-> out.raised, before |-> before]

InitNew ==
    /\ interp = _load_and_eval(Interpreter(EmptyHeap, TRUE), 1, "<interactive>", NewPrelude).st
    /\ last = NoNew
    /\ steps = 0

\* The line "new K(args);" or "K(args);" in a turn of run_interactive's loop.
New ==
    \E form \in NewForms, cls \in DOMAIN NewClasses, a \in NewArgs,
       heap \in Recycled(interp, {last.result}) :
        /\ steps < MaxNews
        /\ With(_load_and_eval(heap, 1, "<interactive>",
                               form \o NewClasses[cls] \o "(" \o a.text \o ");"),
                LAMBDA out :
               /\ interp' = out.st
               /\ last' = NewOp(cls, a.args, out, heap))
        /\ steps' = steps + 1

NextNew == New

SpecNew == InitNew /\ [][NextNew]_vars

\* The instantiation of the state is one the init of the class accepts: the
\* class has no init, or an init of as many parameters as arguments are given.
InitAccepts ==
    \/ "init" \notin DOMAIN Members(last.before, last.cls)
    \/ Len(last.before.funcs[Members(last.before, last.cls)["init"].n].params)
           = Len(last.args)

-----------------------------------------------------------------------------
(* Specification SpecError: programs of one statement, indented or not, on  *)
(* the first line or below other lines, run by run_program and lexed by     *)
(* lexer.run; most of the statements end in a lexical, a syntax or a        *)
(* runtime error.                                                           *)

\* The lines above the statement.
ErrorPrefixes == {"", "var a = 1;\n", "\n\n"}

ErrorIndents == {"", " ", "  "}

ErrorStatements ==
    {"@;", "\"abc", "!", "1 = 2;", "a.;", "1.2.3;", "var x = ;", "(1", "f(1", "1 +",
     "x;", "1 / 0;", "null.x;", "return 1;", "1;", "var b = 2;"}

\* The number of characters between the start of the line of text that holds
\* the character of index idx (from 0) and that character.
RECURSIVE ColumnOf(_, _)
ColumnOf(text, idx) ==
    IF idx = 0 \/ SubSeq(text, idx, idx) = "\n" THEN 0 ELSE 1 + ColumnOf(text, idx - 1)

\* The number of lines of text that end before its last one.
RECURSIVE LinesAbove(_)
LinesAbove(text) ==
    IF text = "" THEN 0
    ELSE (IF SubSeq(text, 1, 1) = "\n" THEN 1 ELSE 0) + LinesAbove(SubSeq(text, 2, Len(text)))

\* pos_start of each token of a token list.
Starts(tokens) == [i \in 1..Len(tokens) |-> tokens[i].pos_start]

NoErrorRun ==
    [op |-> "none", src |-> "", line |-> "", ln |-> 0, returned |-> FALSE, result |-> PyNone,
     error |-> "", has_error |-> FALSE, raised |-> "", starts |-> <<>>, lex_error |-> NoError,
     alone |-> <<>>]

\* The record of a run of the program src, whose last line is line, the
\* ln-th of the file: what run_program gave back, where lexer.run(src) says
\* its tokens start, the error it returned, and where lexer.run(line) says the
\* tokens of line start.
ErrorRun(src, line, ln, out, lexed, alone) ==
    [op |-> "run", src |-> src, line |-> line, ln |-> ln, returned |-> out.returned,
     result |-> out.result, error |-> out.error, has_error |-> out.has_error,
     raised |-> out.raised, starts |-> Starts(lexed.tokens), lex_error |-> lexed.error,
     alone |-> Starts(alone.tokens)]

InitError ==
    /\ interp = EmptyHeap
    /\ last = NoErrorRun
    /\ steps = 0

\* run_program("<stdin>", src) in a new process, and lexer.run on src and on
\* its last line.
RunError ==
    \E prefix \in ErrorPrefixes, indent \in ErrorIndents, stmt \in ErrorStatements :
        /\ steps = 0
        /\ With(run_program(EmptyHeap, "<stdin>", prefix \o indent \o stmt),
                LAMBDA out :
               /\ interp' = out.st
               /\ last' = ErrorRun(prefix \o indent \o stmt, indent \o stmt,
                                   LinesAbove(prefix) + 1, out,
                                   lex_run(prefix \o indent \o stmt),
                                   lex_run(indent \o stmt)))
        /\ steps' = steps + 1

NextError == RunError

SpecError == InitError /\ [][NextError]_vars

\* C16: every error run returns is rendered as its kind and message, a line
\* "File <name>, line <n>" that names the line of the failing statement, that
\* source line, and a line that ends in the ^ marker.
C16_ErrorsCarryLocation ==
    (last.op = "run" /\ last.has_error)
        => /\ Contains(last.error, "\nFile <stdin>, line " \o ToString(last.ln) \o "\n"
                                   \o last.line \o "\n")
           /\ EndsWith(last.error, "^")

\* C17: the column recorded for a token, and for a lexical error, is the
\* offset of its first character from the start of its source line, on the
\* first line as on later ones; lexing the last line on its own gives its
\* tokens the columns they have inside the file.
C17_ColumnIsOffsetInLine ==
    last.op = "run"
        => /\ \A i \in DOMAIN last.starts :
                  last.starts[i].col = ColumnOf(last.src, last.starts[i].idx)
           /\ last.lex_error.kind # "None"
                  => last.lex_error.pos_start.col
                         = ColumnOf(last.src, last.lex_error.pos_start.idx)
           /\ \A i \in DOMAIN last.alone :
                  Len(last.starts) >= Len(last.alone)
                      => last.alone[i].col
                             = last.starts[Len(last.starts) - Len(last.alone) + i].col

-----------------------------------------------------------------------------
(* lexer.run on a text typed piece by piece, one iteration of make_tokens' *)
(* loop at a time.                                                         *)

\* The longest text, in pieces.
MaxLen == 3

\* The pieces a text is made of: characters of every class of make_tokens'
\* branches, and the two halves of an import directive.
LexPieces == {"a", "1", "\"", "@", "!", "=", "/", "*", "\n", "import", "\"m\""}

\* The files an import directive can name, and their text.
Files == [path \in {"m"} |-> "a"]

\* The text typed so far, the state of make_tokens' loop on it, the number of
\* iterations made, and the offset at which the last iteration started.
LexRun(op, text, state, iterations, at) ==
    [op |-> op, text |-> text, state |-> state, iterations |-> iterations, at |-> at]

\* Lexer(fn, text), before the loop of make_tokens.
LexStart(text) == LexState(Lexer(text), <<>>, NoError, FALSE)

InitLex ==
    /\ interp = EmptyHeap
    /\ last = LexRun("type", "", LexStart(""), 0, 0)
    /\ steps = 0

\* One more piece of text, while the lexer has not been started on it.
TypePiece ==
    \E piece \in LexPieces :
        /\ last.op = "type"
        /\ steps < MaxLen
        /\ last' = LexRun("type", last.text \o piece, LexStart(last.text \o piece), 0, 0)
        /\ steps' = steps + 1
        /\ UNCHANGED interp

\* The next iteration of the loop of make_tokens that appends a token, skips
\* a block comment or returns.
LexIteration ==
    /\ ~last.state.done
    /\ last' = LexRun("lex", last.text, make_tokens_step(last.text, last.state),
                      last.iterations + 1, skip_blanks(last.text, last.state.lx).pos.idx)
    /\ UNCHANGED <<interp, steps>>

NextLex == TypePiece \/ LexIteration

SpecLex == InitLex /\ [][NextLex]_vars

\* The types and values of tokens, without their positions.
Lexemes(tokens) == [i \in DOMAIN tokens |-> <<tokens[i].type, tokens[i].value>>]

Directive(path) == "import" \o "\"" \o path \o "\""

\* C19: lexing a text that starts with the import of a file gives no token
\* for the directive but the tokens of the file, without its EOF, followed by
\* the tokens of the rest of the text; importing a path that names no file
\* gives an ImportError that starts at the path literal.
C19_ImportSplicesFileTokens ==
    last.state.done =>
        /\ \A path \in DOMAIN Files :
               With(SubSeq(last.text, Len(Directive(path)) + 1, Len(last.text)), LAMBDA rest :
                   (/\ StartsWith(last.text, Directive(path))
                    /\ lex_run(Files[path]).error.kind = "None"
                    /\ lex_run(rest).error.kind = "None")
                       => /\ last.state.error.kind = "None"
                          /\ Lexemes(last.state.tokens)
                                 = SubSeq(Lexemes(lex_run(Files[path]).tokens), 1,
                                          Len(lex_run(Files[path]).tokens) - 1)
                                       \o Lexemes(lex_run(rest).tokens))
        /\ \A path \in {""} \ DOMAIN Files :
               last.text = Directive(path)
                   => /\ last.state.error.kind = "ImportError"
                      /\ last.state.error.pos_start.idx = Len("import")

-----------------------------------------------------------------------------
(* Parser(tokens).parse() on chains of assignments.                        *)

\* The most `=` in a statement.
MaxTargets == 2

\* Expressions that are, syntactically, a variable or a member access.
TargetTexts == {"a", "a.b", "this.x", "(a)"}

\* Expressions that are neither.
OtherTexts == {"1", "a + 1", "-a", "f()", "f(1)", "new C()"}

\* The statement `operands[1] = operands[2] = ... ;` from its ix-th operand.
RECURSIVE ChainSource(_, _)
ChainSource(operands, ix) ==
    IF ix = Len(operands) THEN operands[ix] \o ";"
    ELSE operands[ix] \o " = " \o ChainSource(operands, ix + 1)

\* The offset of the ix-th operand in the statement.
RECURSIVE OffsetOf(_, _)
OffsetOf(operands, ix) ==
    IF ix = 1 THEN 0
    ELSE OffsetOf(operands, ix - 1) + Len(operands[ix - 1]) + Len(" = ")

NoParse == [op |-> "none", operands |-> <<>>, src |-> "", node |-> NoNode, error |-> NoError]

\* What Parser(tokens).parse() gave for the statement made of operands.
ParseOf(operands, res) ==
    [op |-> "parse", operands |-> operands, src |-> ChainSource(operands, 1),
     node |-> res.node, error |-> res.error]

InitParse ==
    /\ interp = EmptyHeap
    /\ last = NoParse
    /\ steps = 0

\* One more operand at the end of the statement, and the statement parsed:
\* lexer.run, then Parser(tokens).parse().
ParseChain ==
    \E operand \in TargetTexts \cup OtherTexts :
        /\ Len(last.operands) <= MaxTargets
        /\ last' = ParseOf(Append(last.operands, operand),
                           Parser_parse(lex_run(ChainSource(Append(last.operands, operand),
                                                            1)).tokens))
        /\ steps' = steps + 1
        /\ UNCHANGED interp

NextParse == ParseChain

SpecParse == InitParse /\ [][NextParse]_vars

\* The Assign node for the ix-th operand of the chain is node: its target lies
\* within that operand and is a VarAccess or a MemberAccess, and its value is
\* the Assign node of the rest of the chain.
RECURSIVE IsChain(_, _, _)
IsChain(node, operands, ix) ==
    IF ix = Len(operands) THEN node.type # "AssignNode"
    ELSE /\ node.type = "AssignNode"
         /\ node.target_node.type \in {"VarAccessNode", "MemberAccessNode"}
         /\ node.target_node.pos_start.idx >= OffsetOf(operands, ix)
         /\ node.target_node.pos_end.idx <= OffsetOf(operands, ix) + Len(operands[ix])
         /\ IsChain(node.expr_node, operands, ix + 1)

\* The operands of the chain that are followed by `=` and are no target.
Rejected(operands) ==
    {ix \in 1..(Len(operands) - 1) : operands[ix] \in OtherTexts}

\* C20: a chain of assignments whose operands before each `=` are variable or
\* member accesses parses to Assign nodes nested to the right, a = (b = e),
\* each with its operand as target; a chain with another expression before an
\* `=` is rejected with the parse error "Invalid assignment target" whose
\* position is the span of the first such operand.
C20_AssignTargetsAndErrorSpan ==
    last.op = "parse" =>
        IF Rejected(last.operands) = {}
        THEN /\ last.error.kind = "None"
             /\ Len(last.node.statements) = 1
             /\ IsChain(last.node.statements[1].expr, last.operands, 1)
        ELSE With(CHOOSE ix \in Rejected(last.operands) :
                      \A other \in Rejected(last.operands) : ix <= other,
                  LAMBDA ix :
                      /\ last.error.kind = "ParseError"
                      /\ last.error.message = "Syntax error: Invalid assignment target"
                      /\ last.error.pos_start.idx = OffsetOf(last.operands, ix)
                      /\ last.error.pos_end.idx
                             = OffsetOf(last.operands, ix) + Len(last.operands[ix]))

-----------------------------------------------------------------------------
(* run_program on an if statement with a chain of clauses.                 *)

\* The most clauses between the if clause and the else clause.
MaxClauses == 2

\* The two spellings of a clause of the chain.
ClauseWords == {"else if", "elif"}

\* The conditions of the clauses, of which "1" alone is truthy.
Conditions == {"0", "1", "null"}

\* The clauses of the chain from the ix-th on; the body of the n-th clause of
\* the statement is the number 10 * n.
RECURSIVE ChainClauses(_, _, _)
ChainClauses(word, conditions, ix) ==
    IF ix > Len(conditions) THEN ""
    ELSE (IF ix = 1 THEN "if" ELSE " " \o word)
         \o " (" \o conditions[ix] \o ") { "
         \o ToString(10 * ix) \o "; }" \o ChainClauses(word, conditions, ix + 1)

IfSource(word, conditions, has_else) ==
    ChainClauses(word, conditions, 1) \o (IF has_else THEN " else { 0; }" ELSE "")

\* The clauses whose condition is truthy.
TruthyClauses(conditions) == {ix \in DOMAIN conditions : conditions[ix] = "1"}

\* The first of them.
FirstTruthy(conditions) ==
    CHOOSE ix \in TruthyClauses(conditions) : \A other \in TruthyClauses(conditions) : ix <= other

NoIf ==
    [op |-> "none", src |-> "", conditions |-> <<>>, has_else |-> FALSE,
     returned |-> FALSE, result |-> PyNone, error |-> "", has_error |-> FALSE, raised |-> ""]

\* The record of a run of an if statement.
IfRun(src, conditions, has_else, out) ==
    [op |-> "if", src |-> src, conditions |-> conditions, has_else |-> has_else,
     returned |-> out.returned, result |-> out.result, error |-> out.error,
     has_error |-> out.has_error, raised |-> out.raised]

InitIf ==
    /\ interp = EmptyHeap
    /\ last = NoIf
    /\ steps = 0

\* run_program("<stdin>", src) for an if statement, in a new process.
RunIf ==
    \E word \in ClauseWords, n \in 1..(MaxClauses + 1), has_else \in BOOLEAN :
        \E conditions \in [1..n -> Conditions] :
            /\ steps = 0
            /\ With(run_program(EmptyHeap, "<stdin>", IfSource(word, conditions, has_else)),
                    LAMBDA out :
                   /\ interp' = out.st
                   /\ last' = IfRun(IfSource(word, conditions, has_else), conditions,
                                    has_else, out))
            /\ steps' = steps + 1

NextIf == RunIf

SpecIf == InitIf /\ [][NextIf]_vars

\* C21: an if statement with a chain of `else if` or `elif` clauses and an
\* optional else runs without error and yields the value of the body of the
\* first clause whose condition is truthy, else the value of the else block,
\* else Null.
C21_FirstTruthyClauseRuns ==
    last.op = "if"
        => /\ last.returned
           /\ ~last.has_error
           /\ last.result
                  = (IF TruthyClauses(last.conditions) # {}
                     THEN PyInt(10 * FirstTruthy(last.conditions))
                     ELSE IF last.has_else THEN PyInt(0) ELSE PyNone)

-----------------------------------------------------------------------------
(* Interpreter.__init__ with the standard library: the directory of the    *)
(* package, <script_dir>/../stdlib, may exist or not, and each file of the *)
(* library may be there or not, with a text that lexes, parses and         *)
(* evaluates, or does not.                                                 *)

\* The most Interpreter constructions and reloads in a process.
MaxInterpreters == 2

\* stdlib_files of _load_all_stdlib, in its order.
stdlib_files == <<"prelude.xor", "core.xor", "string.xor", "lists.xor", "gui.xor">>

\* The texts of a file of the library: one that does not lex, one that does
\* not parse, one that fails when evaluated, and one that defines a global.
BadTexts == {"@", "var = 1;", "var e = x;"}

GoodText(filename) ==
    CASE filename = "prelude.xor" -> "var p = 1;"
      [] filename = "core.xor" -> "var c = p;"
      [] filename = "string.xor" -> "var s = 1;"
      [] filename = "lists.xor" -> "var l = 1;"
      [] filename = "gui.xor" -> "var g = 1;"

\* The files whose text varies from disk to disk.
VariedFiles == {"prelude.xor", "core.xor"}

\* A disk: whether the directory of the package exists, the files in it, and
\* their text.
Disk(package_dir, present, text) ==
    [package_dir |-> package_dir, present |-> present, text |-> text]

Disks ==
    {Disk(FALSE, {}, [f \in {} |-> ""])}
    \cup {Disk(TRUE, present, [f \in present |-> IF f \in DOMAIN varied THEN varied[f]
                                                 ELSE GoodText(f)]) :
              present \in {{"string.xor", "lists.xor", "gui.xor"} \cup some :
                               some \in SUBSET VariedFiles},
              varied \in [VariedFiles -> BadTexts \cup {"good"}]}

\* The values of the stdlib_path argument of Interpreter: None, a directory,
\* and a path that names no directory.
StdlibPaths == {"None", "directory", "no directory"}

\* The outcome of a step of the construction: the heap, the reads and the
\* parses of files so far, and the exception that left __init__, if any.
Loaded(st, log, raised) == [st |-> st, log |-> log, raised |-> raised]

\* open(lib_path).read(), lexer.make_tokens(), parser.parse() and
\* self.eval(ast.node) of _load_stdlib_file for a file that is on the disk.
\* Every exception of the parser and of the evaluation is caught.
_load_stdlib_text(st, self, filename, code, log) ==
    With(lex_run(code), LAMBDA lexed :
    IF lexed.error.kind # "None" THEN Loaded(st, Append(log, <<"read", filename>>), "")
    ELSE
    With(Parser_parse(lexed.tokens), LAMBDA ast :
    With(log \o <<(<<"read", filename>>), (<<"parse", filename>>)>>, LAMBDA log2 :
    IF Failed(ast) THEN Loaded(st, log2, "")
    ELSE With(eval(self, ast.node, st.interps[self].globals, st, MaxDepth), LAMBDA r :
             CASE r.sig = "ok" ->
                      Loaded([r.st EXCEPT !.interps[self]._stdlib_cache = @ \cup {filename}],
                             log2, "")
               [] r.sig = "hang" -> Loaded(r.st, log2, "hang")
               [] OTHER -> Loaded(r.st, log2, "")))))

\* _load_stdlib_file(filename), with _find_stdlib_file.
_load_stdlib_file(st, self, disk, filename, log) ==
    IF filename \in st.interps[self]._stdlib_cache THEN Loaded(st, log, "")
    ELSE IF ~disk.package_dir \/ filename \notin disk.present THEN Loaded(st, log, "")
    ELSE _load_stdlib_text(st, self, filename,
                           IF disk.text[filename] = "good" THEN GoodText(filename)
                           ELSE disk.text[filename],
                           log)

\* The loop of _load_all_stdlib from the ix-th file on.
RECURSIVE _load_all_stdlib_loop(_, _, _, _, _)
_load_all_stdlib_loop(st, self, disk, ix, log) ==
    IF ix > Len(stdlib_files) THEN Loaded(st, log, "")
    ELSE With(_load_stdlib_file(st, self, disk, stdlib_files[ix], log), LAMBDA r :
             IF r.raised # "" THEN r
             ELSE _load_all_stdlib_loop(r.st, self, disk, ix + 1, r.log))

\* _load_all_stdlib; is_dir says that self.stdlib_path names a directory.
_load_all_stdlib(st, self, disk, is_dir, log) ==
    IF ~is_dir THEN Loaded(st, log, "")
    ELSE _load_all_stdlib_loop(st, self, disk, 1, log)

\* os.path.isdir(self.stdlib_path) at line 216.
IsDirectory(disk, stdlib_path) ==
    CASE stdlib_path = "None" -> disk.package_dir
      [] stdlib_path = "directory" -> TRUE
      [] stdlib_path = "no directory" -> FALSE

\* Interpreter(stdlib_path).  script_dir is assigned only when stdlib_path is
\* None, and is read when self.stdlib_path is no directory; the directory
\* <project_root>/src/xorlang/stdlib that replaces it then does not exist.
Interpreter_init(st, disk, stdlib_path, log) ==
    IF ~IsDirectory(disk, stdlib_path) /\ stdlib_path # "None"
    THEN Loaded(st, log, "UnboundLocalError")
    ELSE With(Interpreter(st, IsDirectory(disk, stdlib_path)), LAMBDA st1 :
             _load_all_stdlib(st1, Len(st1.interps), disk,
                              IsDirectory(disk, stdlib_path), log))

\* The record of the last operation: the disk of the process, the reads and
\* parses of library files since the process started, those before the
\* operation, and the exception that left the operation, if any.
StdlibOp(op, disk, stdlib_path, self, out, before) ==
    [op |-> op, disk |-> disk, stdlib_path |-> stdlib_path, self |-> self,
     log |-> out.log, before |-> before, raised |-> out.raised]

InitStdlib ==
    /\ interp = EmptyHeap
    /\ \E disk \in Disks :
           last = StdlibOp("none", disk, "None", 0, Loaded(EmptyHeap, <<>>, ""), <<>>)
    /\ steps = 0

\* Interpreter(stdlib_path=stdlib_path)
Construct ==
    \E stdlib_path \in StdlibPaths :
        /\ steps < MaxInterpreters
        /\ With(Interpreter_init(interp, last.disk, stdlib_path, last.log), LAMBDA out :
               /\ interp' = out.st
               /\ last' = StdlibOp("construct", last.disk, stdlib_path, Len(out.st.interps),
                                   out, last.log))
        /\ steps' = steps + 1

\* interpreter._load_stdlib_file(filename) on an Interpreter constructed
\* before.
Reload ==
    \E self \in DOMAIN interp.interps, ix \in DOMAIN stdlib_files :
        /\ steps < MaxInterpreters
        /\ With(_load_stdlib_file(interp, self, last.disk, stdlib_files[ix], last.log),
                LAMBDA out :
               /\ interp' = out.st
               /\ last' = StdlibOp("reload", last.disk, "None", self, out, last.log))
        /\ steps' = steps + 1

NextStdlib == Construct \/ Reload

SpecStdlib == InitStdlib /\ [][NextStdlib]_vars

\* C22: constructing an Interpreter completes whatever stdlib_path it is
\* given and whatever the files of the library hold, and leaves the built-in
\* print defined in the global environment of the new Interpreter.
C22_ConstructionNeverFails ==
    last.op = "construct"
        => /\ last.raised = ""
           /\ last.self = Len(interp.interps)
           /\ "print" \in DOMAIN interp.envs[interp.interps[last.self].globals].values

\* The place of filename in the load order.
LoadOrder(filename) == CHOOSE ix \in DOMAIN stdlib_files : stdlib_files[ix] = filename

\* C23: since the process started no file of the library has been read twice
\* or parsed twice, by however many Interpreters, and the files a
\* construction reads are read in the order prelude, core, string, lists, gui.
C23_LibraryFilesReadOnce ==
    /\ \A i, j \in DOMAIN last.log : last.log[i] = last.log[j] => i = j
    /\ last.op = "construct"
           => \A i, j \in (Len(last.before) + 1)..Len(last.log) :
                  i < j => LoadOrder(last.log[i][2]) <= LoadOrder(last.log[j][2])

-----------------------------------------------------------------------------
(* Environment.set of the package and of the legacy src/interpreter.py, on *)
(* environments linked into scope chains.                                  *)

\* Environment.set of src/interpreter.py, whose Environment has no cache.
legacy_Environment_set(st, e, name, value) ==
    LET env == Environment_resolve(st, e, name) IN
    IF env = 0
    THEN [st EXCEPT !.envs[e].values = MapPut(@, name, value)]
    ELSE [st EXCEPT !.envs[env].values = MapPut(@, name, value)]

\* The most environments, and the most calls of set in a behaviour.
MaxScopes == 3
MaxSets == 3

\* Environment(parent) for an environment parent of the heap.
ScopeNew ==
    \E p \in 1..Len(interp.envs) :
        /\ Len(interp.envs) < MaxScopes
        /\ interp' = NewEnvironment(interp, p)
        /\ last' = [NoOp EXCEPT !.op = "new", !.env = p]
        /\ UNCHANGED steps

\* e.set(name, v) with Environment of the package.
ScopeSet ==
    \E e \in 1..Len(interp.envs), name \in EnvNames :
        /\ steps < MaxSets
        /\ interp' = Environment_set(interp, e, name, EnvVal(steps + 1))
        /\ last' = [op |-> "set", env |-> e, name |-> name,
                    v |-> EnvVal(steps + 1), sig |-> "ok"]
        /\ steps' = steps + 1

\* e.set(name, v) with Environment of src/interpreter.py.
ScopeSetLegacy ==
    \E e \in 1..Len(interp.envs), name \in EnvNames :
        /\ steps < MaxSets
        /\ interp' = legacy_Environment_set(interp, e, name, EnvVal(steps + 1))
        /\ last' = [op |-> "legacy set", env |-> e, name |-> name,
                    v |-> EnvVal(steps + 1), sig |-> "ok"]
        /\ steps' = steps + 1

NextSet == ScopeNew \/ ScopeSet \/ ScopeSetLegacy

SpecSet == InitEnv /\ [][NextSet]_vars

\* The parent chain of environment e, e first and the global environment
\* last.
RECURSIVE ParentChain(_, _)
ParentChain(st, e) ==
    IF st.envs[e].parent = 0 THEN <<e>> ELSE <<e>> \o ParentChain(st, st.envs[e].parent)

\* The environments of the chain of e that bind name.
Binders(st, e, name) ==
    {ix \in DOMAIN ParentChain(st, e) : name \in DOMAIN st.envs[ParentChain(st, e)[ix]].values}

\* The environment set(name, v) on e must write: the nearest one of the chain
\* that binds name, e itself when none does.
Written(st, e, name) ==
    IF Binders(st, e, name) = {} THEN e
    ELSE ParentChain(st, e)[CHOOSE ix \in Binders(st, e, name) :
                                \A other \in Binders(st, e, name) : ix <= other]

-----------------------------------------------------------------------------
(* Imports on one interpreter: the statement `import "name";` given to the *)
(* interpreter as a line, and the nodes Import(name) and                   *)
(* MemberAccess(Import(name), member) evaluated in an environment.         *)

\* The most imports in a behaviour.
MaxAccesses == 2

\* The names the top-level statements of each module file define, and their
\* values.
ModuleBindings ==
    [f \in DOMAIN StdlibFiles |->
        IF f = "m.xor" THEN [name \in {"a"} |-> PyInt(1)] ELSE [name \in {"b"} |-> PyInt(2)]]

\* The modules imported, and the members read.
AccessModules == {"m", "k", "stdlib/m"}

AccessMembers == {"a", "b"}

\* The environments an import is evaluated in: the global one, and a new
\* environment below it.
AccessScopes == {"global", "local"}

NoAccess ==
    [op |-> "none", module |-> "", member |-> "", env |-> 0, sig |-> "ok", v |-> PyNone,
     msg |-> ""]

\* The record of an import of module evaluated in env, and of the read of
\* member on its value if member is not "".
AccessOf(op, module, member, env, sig, v, msg) ==
    [op |-> op, module |-> module, member |-> member, env |-> env, sig |-> sig, v |-> v,
     msg |-> msg]

InitImport ==
    /\ interp = Interpreter(EmptyHeap, TRUE)
    /\ last = NoAccess
    /\ steps = 0

\* The line `import "module";` given to the interpreter.
ImportLine ==
    \E module \in AccessModules :
        /\ steps < MaxAccesses
        /\ With(_load_and_eval(interp, 1, "<interactive>", "import \"" \o module \o "\";"),
                LAMBDA out :
               /\ interp' = out.st
               /\ last' = AccessOf("line", module, "", interp.interps[1].globals,
                                   IF out.has_error THEN "error"
                                   ELSE IF out.returned THEN "ok" ELSE "host",
                                   out.result, out.error))
        /\ steps' = steps + 1

\* The heap in which the environment of scope exists: the global environment
\* of the interpreter, or one more environment whose parent it is.
ScopeHeap(st, scope) ==
    IF scope = "global" THEN st ELSE NewEnvironment(st, st.interps[1].globals)

ScopeEnv(st, scope) ==
    IF scope = "global" THEN st.interps[1].globals ELSE Len(st.envs) + 1

\* interpreter.eval(ImportNode(module), env)
ImportNamespace ==
    \E module \in AccessModules, scope \in AccessScopes :
        /\ steps < MaxAccesses
        /\ With(eval(1, ImportNode(Token("STRING", module, 0, 1, NoPos, NoPos)),
                     ScopeEnv(interp, scope), ScopeHeap(interp, scope), MaxDepth),
                LAMBDA r :
               /\ interp' = r.st
               /\ last' = AccessOf("import", module, "", ScopeEnv(interp, scope),
                                   r.sig, r.v, r.msg))
        /\ steps' = steps + 1

\* interpreter.eval(MemberAccessNode(ImportNode(module), member), env)
ImportMember ==
    \E module \in AccessModules, member \in AccessMembers, scope \in AccessScopes :
        /\ steps < MaxAccesses
        /\ With(eval(1, MemberAccessNode(
                            ImportNode(Token("STRING", module, 0, 1, NoPos, NoPos)),
                            Token("IDENTIFIER", member, 0, 1, NoPos, NoPos)),
                     ScopeEnv(interp, scope), ScopeHeap(interp, scope), MaxDepth),
                LAMBDA r :
               /\ interp' = r.st
               /\ last' = AccessOf("member", module, member, ScopeEnv(interp, scope),
                                   r.sig, r.v, r.msg))
        /\ steps' = steps + 1

NextImport == ImportLine \/ ImportNamespace \/ ImportMember

SpecImport == InitImport /\ [][NextImport]_vars

\* C25: an import, as a line and as a node, yields a namespace that binds
\* exactly the names the module defines, to the module's values; reading a
\* member of the value of an import yields the module's binding of that name;
\* and no name of the module is bound in the importing environment or in the
\* global environment.
C25_ImportYieldsNamespace ==
    last.op # "none" =>
        With(ModuleBindings[ModulePath(last.module)], LAMBDA bindings :
            /\ last.op \in {"line", "import"}
                   => /\ last.sig = "ok"
                      /\ last.v.k = "env"
                      /\ interp.envs[last.v.n].values = bindings
            /\ (last.op = "member" /\ last.member \in DOMAIN bindings)
                   => /\ last.sig = "ok"
                      /\ last.v = bindings[last.member]
            /\ \A name \in DOMAIN bindings :
                   /\ name \notin DOMAIN interp.envs[last.env].values
                   /\ name \notin DOMAIN interp.envs[interp.interps[1].globals].values)

-----------------------------------------------------------------------------
(* run_program on a function whose return is nested in if, while and for   *)
(* statements, called from the top level and from another function.        *)

\* The deepest nesting of the return.
MaxNest == 2

\* The statements a return is nested in.
NestKinds == {"if", "while", "for"}

\* The return statements, and the value each carries.
ReturnForms == {"return 5;", "return 0;", "return;"}

Carried(form) ==
    CASE form = "return 5;" -> PyInt(5) [] form = "return 0;" -> PyInt(0) [] OTHER -> PyNone

\* What runs in the function before the nest: nothing, or a print.
ReturnPreludes == {"", "print(1); "}

\* The functions whose call the program ends with: f holds the return, g
\* calls f and goes on.
ReturnCallers == {"f", "g"}

\* inner inside the statements kinds[ix], ..., kinds[Len(kinds)], outermost
\* first.
RECURSIVE Nested(_, _, _)
Nested(kinds, ix, inner) ==
    IF ix > Len(kinds) THEN inner
    ELSE (CASE kinds[ix] = "if" -> "if (1) { "
            [] kinds[ix] = "while" -> "while (1) { "
            [] kinds[ix] = "for" -> "for (var i = 0; i < 1; i = i + 1) { ")
         \o Nested(kinds, ix + 1, inner) \o " }"

ReturnSource(prelude, kinds, form, caller) ==
    "func f(){ " \o prelude \o Nested(kinds, 1, form) \o " print(9); return 6; } "
    \o "func g(){ var x = f(); print(8); return x; } "
    \o "var r = " \o caller \o "(); print(7); r;"

\* What the program must write: the prelude's print, the print of g after
\* its call of f, and the print of the top level after its call.
ReturnOutput(prelude, caller) ==
    (IF prelude = "" THEN <<>> ELSE <<(<<PyInt(1)>>)>>)
    \o (IF caller = "g" THEN <<(<<PyInt(8)>>)>> ELSE <<>>)
    \o <<(<<PyInt(7)>>)>>

NoReturnRun ==
    [op |-> "none", src |-> "", kinds |-> <<>>, carried |-> PyNone, output |-> <<>>,
     returned |-> FALSE, result |-> PyNone, error |-> "", has_error |-> FALSE, raised |-> ""]

\* The record of a run: the nest of the return, the value it carries, the
\* output expected, and what run_program gave back.
ReturnRun(src, kinds, carried, output, out) ==
    [op |-> "return", src |-> src, kinds |-> kinds, carried |-> carried, output |-> output,
     returned |-> out.returned, result |-> out.result, error |-> out.error,
     has_error |-> out.has_error, raised |-> out.raised]

InitReturn ==
    /\ interp = EmptyHeap
    /\ last = NoReturnRun
    /\ steps = 0

\* run_program("<stdin>", src) in a new process.
RunReturn ==
    \E prelude \in ReturnPreludes, depth \in 0..MaxNest, form \in ReturnForms,
       caller \in ReturnCallers :
        \E kinds \in [1..depth -> NestKinds] :
            /\ steps = 0
            /\ With(run_program(EmptyHeap, "<stdin>",
                                ReturnSource(prelude, kinds, form, caller)),
                    LAMBDA out :
                   /\ interp' = out.st
                   /\ last' = ReturnRun(ReturnSource(prelude, kinds, form, caller), kinds,
                                        Carried(form), ReturnOutput(prelude, caller), out))
            /\ steps' = steps + 1

NextReturn == RunReturn

SpecReturn == InitReturn /\ [][NextReturn]_vars

\* C26: a return nested in if, while and for statements of a function ends
\* the call of that function and no other: the statements after it in the
\* function do not run, the call yields the carried value, Null for a return
\* without expression, and the caller, a function or the top level, goes on
\* with the statements after the call.
C26_ReturnEndsItsCall ==
    last.op = "return"
        => /\ last.returned
           /\ ~last.has_error
           /\ last.raised = ""
           /\ last.result = last.carried
           /\ interp.stdout = last.output

\* A return two statements deep has ended a call made by another function.
C26_Witness ==
    /\ last.op = "return"
    /\ Len(last.kinds) >= 2
    /\ last.kinds[1] # last.kinds[2]
    /\ <<PyInt(8)>> \in {last.output[ix] : ix \in DOMAIN last.output}
    /\ interp.stdout = last.output
    /\ last.result = PyInt(5)

-----------------------------------------------------------------------------
(* Specification SpecInstance: one interpreter fed lines that create        *)
(* instances of one class, each with a field value of its own, and read     *)
(* the field or call the method that returns it; instances that no binding  *)
(* holds die at the end of their line.                                      *)

MaxReads == 3    \* lines evaluated in one behaviour

InstancePrelude ==
    "class C { func init(v){ this.v = v; } func get(){ return this.v; } }"

\* The lines, each with the field value of the instance it reads.
InstanceReads ==
    [src : {"new C(1).v;", "new C(1).get();"}, own : {1}]
    \cup [src : {"new C(2).v;", "new C(2).get();"}, own : {2}]
    \cup [src : {"var a = new C(3); a.v;", "a.get();"}, own : {3}]

\* The heap after the class definition.
InstanceHeap ==
    _load_and_eval(Interpreter(EmptyHeap, TRUE), 1, "<interactive>", InstancePrelude).st

NoRead ==
    [op |-> "none", src |-> "", own |-> 0, returned |-> FALSE, result |-> PyNone,
     error |-> "", has_error |-> FALSE, raised |-> "", recycled |-> FALSE]

InitInstance ==
    /\ interp = InstanceHeap
    /\ last = NoRead
    /\ steps = 0

\* One turn of run_interactive's loop on a line that reads a member of an
\* instance.
InstanceRead ==
    \E read \in InstanceReads, heap \in Recycled(interp, {last.result}) :
        /\ steps < MaxReads
        /\ With(_load_and_eval(heap, 1, "<interactive>", read.src), LAMBDA out :
               /\ interp' = out.st
               /\ last' = [op |-> "read", src |-> read.src, own |-> read.own,
                           returned |-> out.returned, result |-> out.result,
                           error |-> out.error, has_error |-> out.has_error,
                           raised |-> out.raised, recycled |-> heap.free # <<>>])
        /\ steps' = steps + 1

NextInstance == InstanceRead

SpecInstance == InitInstance /\ [][NextInstance]_vars

\* C27: a member read on an instance is resolved against that instance: when
\* the line ends without error, the value of the field v, read directly or
\* through the bound method get, is the value the instance itself was
\* created with, never that of an instance created and discarded before it.
C27_MemberOfItsOwnInstance ==
    (last.op = "read" /\ ~last.has_error) => last.result = PyInt(last.own)

-----------------------------------------------------------------------------
(* Specification SpecShared: two interpreters of one process, each having   *)
(* evaluated the class definition, evaluate lines in any interleaving.      *)

MaxEvals == 2    \* lines evaluated in one behaviour, over both interpreters

\* The heap after both interpreters were constructed and each evaluated the
\* class definition.
SharedHeap ==
    With(Interpreter(Interpreter(EmptyHeap, TRUE), TRUE), LAMBDA st :
        _load_and_eval(_load_and_eval(st, 1, "<interactive>", InstancePrelude).st,
                       2, "<interactive>", InstancePrelude).st)

NoEval ==
    [op |-> "none", interpreter |-> 0, src |-> "", own |-> 0, fresh |-> FALSE,
     done |-> {}, returned |-> FALSE, result |-> PyNone, error |-> "",
     has_error |-> FALSE, raised |-> "", before |-> EmptyHeap]

InitShared ==
    /\ interp = SharedHeap
    /\ last = NoEval
    /\ steps = 0

\* One of the interpreters evaluates a line: fresh says that it evaluated no
\* line before, done is the set of interpreters that have.
Evaluate ==
    \E i \in 1..Len(interp.interps), read \in InstanceReads,
       heap \in Recycled(interp, {last.result}) :
        /\ steps < MaxEvals
        /\ With(_load_and_eval(heap, i, "<interactive>", read.src), LAMBDA out :
               /\ interp' = out.st
               /\ last' = [op |-> "eval", interpreter |-> i, src |-> read.src,
                           own |-> read.own, fresh |-> i \notin last.done,
                           done |-> last.done \cup {i}, returned |-> out.returned,
                           result |-> out.result, error |-> out.error,
                           has_error |-> out.has_error, raised |-> out.raised,
                           before |-> heap])
        /\ steps' = steps + 1

NextShared == Evaluate

SpecShared == InitShared /\ [][NextShared]_vars

\* C28: two interpreters share no evaluation state: a line evaluated by one
\* leaves the other's fields (its lookup caches among them) and the bindings
\* of the other's global environment as they were, and the value a line
\* yields on an interpreter that evaluated no line before is the one the line
\* yields on its own, whatever the other interpreter evaluated.
C28_InterpretersShareNothing ==
    last.op = "eval"
        => /\ \A j \in 1..Len(interp.interps) \ {last.interpreter} :
                  /\ interp.interps[j] = last.before.interps[j]
                  /\ interp.envs[interp.interps[j].globals]
                        = last.before.envs[interp.interps[j].globals]
           /\ (last.fresh /\ ~last.has_error) => last.result = PyInt(last.own)

-----------------------------------------------------------------------------
(* Specification SpecTop: Parser(tokens).parse() on the token lists of      *)
(* short texts, among them texts with an unmatched brace or parenthesis at  *)
(* top level.                                                               *)

MaxPieces == 3    \* pieces of one text

TopPieces == {"1", ";", "}", "{", "+", "x = 1", "if (1) {", ")"}

\* The pieces from the ix-th on, separated by blanks.
RECURSIVE TopText(_, _)
TopText(pieces, ix) ==
    IF ix > Len(pieces) THEN ""
    ELSE IF ix = Len(pieces) THEN pieces[ix]
    ELSE pieces[ix] \o " " \o TopText(pieces, ix + 1)

NoTop ==
    [op |-> "none", pieces |-> <<>>, src |-> "", tokens |-> <<>>, node |-> NoNode,
     error |-> NoError, raised |-> ""]

InitTop ==
    /\ interp = EmptyHeap
    /\ last = NoTop
    /\ steps = 0

\* One more piece at the end of the text, and the text parsed: lexer.run,
\* then Parser(tokens).parse().
ParseText ==
    \E piece \in TopPieces :
        /\ Len(last.pieces) < MaxPieces
        /\ With(lex_run(TopText(Append(last.pieces, piece), 1)).tokens, LAMBDA tokens :
           With(Parser_parse(tokens), LAMBDA res :
               last' = [op |-> "parse", pieces |-> Append(last.pieces, piece),
                        src |-> TopText(Append(last.pieces, piece), 1),
                        tokens |-> tokens, node |-> res.node, error |-> res.error,
                        raised |-> res.raised]))
        /\ steps' = steps + 1
        /\ UNCHANGED interp

NextTop == ParseText

SpecTop == InitTop /\ [][NextTop]_vars

\* C29: for a token list that ends in EOF, parse returns a result that holds
\* either a node and no error, or an error and no node; a text with an
\* unmatched `}` at top level is such a list and gets the error without a
\* node.
C29_NodeXorError ==
    (last.op = "parse" /\ last.tokens[Len(last.tokens)].type = "EOF")
        => \/ IsNode(last.node) /\ last.error.kind = "None"
           \/ ~IsNode(last.node) /\ last.error.kind # "None"

-----------------------------------------------------------------------------
(* ide.py: the XorLangIDE object, its thread pool and its output queue.    *)
(* In specification SpecIde the variable interp holds the IDE object: the  *)
(* handlers of the Tk event loop (Run, Stop and the two timers) run one at *)
(* a time on the main thread, the worker thread of each executor runs the  *)
(* submitted evaluations, and the steps of the threads interleave.         *)

MaxRunRequests == 2    \* evaluations submitted in one behaviour
MaxPrints == 1         \* lines one evaluation prints

\* XorLangIDE.__init__: futures lists every future submitted, each with the
\* executor it was submitted to; output_text is the content of the output
\* area, each entry with the evaluation it comes from (0: the IDE itself).
NewIde ==
    [is_running |-> FALSE,
     current_future |-> 0,             \* None
     executor |-> 1,
     has_start_time |-> FALSE,         \* hasattr(self, 'execution_start_time')
     futures |-> <<>>,
     output_queue |-> <<>>,
     output_text |-> <<>>]

\* The text an entry of the output area shows and the evaluation that
\* printed it.
OutputEntry(from, text) == [from |-> from, text |-> text]

\* Future.cancel(): a future that is waiting for its worker is cancelled, a
\* future that is running or done stays as it is.
cancel(ide, f) ==
    IF ide.futures[f].state = "PENDING"
    THEN [ide EXCEPT !.futures[f].state = "CANCELLED"]
    ELSE ide

\* append_output on the main thread.
append_output(ide, text) ==
    [ide EXCEPT !.output_text = Append(@, OutputEntry(0, text))]

\* execution_finished(result, error)
execution_finished(ide, has_result, error) ==
    append_output([ide EXCEPT !.is_running = FALSE, !.current_future = 0,
                              !.has_start_time = FALSE],
                  IF error # "" THEN "Error: " \o error
                  ELSE IF has_result THEN "Result" ELSE "Execution completed.")

\* run_code() when no evaluation is in progress: the output area is cleared
\* and the evaluation is submitted to the executor.
run_code(ide) ==
    append_output([ide EXCEPT !.is_running = TRUE,
                              !.output_text = <<>>,
                              !.has_start_time = TRUE,
                              !.current_future = Len(ide.futures) + 1,
                              !.futures = Append(@, [executor |-> ide.executor,
                                                     state |-> "PENDING",
                                                     printed |-> 0])],
                  "Running XorLang code...")

\* stop_execution() when an evaluation is in progress: the executor is shut
\* down without waiting for its thread and replaced by a new one.
stop_execution(ide) ==
    With(IF ide.current_future # 0 THEN cancel(ide, ide.current_future) ELSE ide,
         LAMBDA ide1 :
        execution_finished([ide1 EXCEPT !.executor = @ + 1], FALSE,
                           "Execution stopped by user"))

\* check_execution_status(): elapsed says that more than execution_timeout
\* seconds have passed since the evaluation was submitted.
check_execution_status(ide, elapsed) ==
    IF ide.current_future = 0 THEN ide
    ELSE IF ide.futures[ide.current_future].state = "FINISHED"
    THEN execution_finished(ide, FALSE, "")
    ELSE IF ide.has_start_time /\ elapsed
    THEN execution_finished(cancel(ide, ide.current_future), FALSE,
                            "Execution timed out after 30 seconds")
    ELSE ide

\* process_output_queue(): every queued entry goes to the output area.
process_output_queue(ide) ==
    [ide EXCEPT !.output_text = @ \o ide.output_queue, !.output_queue = <<>>]

\* _queue_output(text), called by the evaluation f for a line it prints.
_queue_output(ide, f) ==
    [ide EXCEPT !.output_queue = Append(@, OutputEntry(f, "line")),
                !.futures[f].printed = @ + 1]

\* The futures whose evaluation is executing.
Executing(ide) == {f \in DOMAIN ide.futures : ide.futures[f].state = "RUNNING"}

\* The future the worker thread of its executor takes next: the thread is
\* idle and no future submitted earlier to the executor is waiting.
NextOfWorker(ide, f) ==
    /\ ide.futures[f].state = "PENDING"
    /\ \A g \in DOMAIN ide.futures :
           (g # f /\ ide.futures[g].executor = ide.futures[f].executor)
               => /\ ide.futures[g].state # "RUNNING"
                  /\ (g < f => ide.futures[g].state # "PENDING")

\* What the last step was; shown is the evaluation the output area was
\* cleared for, abandoned the evaluations reported as finished by Stop or by
\* the timeout while they were executing.
NoIdeStep == [op |-> "none", shown |-> 0, abandoned |-> {}]

IdeStep(op, ide) ==
    [op |-> op,
     shown |-> IF op = "run_code" THEN ide.current_future ELSE last.shown,
     abandoned |-> IF op \in {"stop_execution", "timeout"}
                   THEN last.abandoned \cup (Executing(interp) \cap {interp.current_future})
                   ELSE last.abandoned]

InitIde ==
    /\ interp = NewIde
    /\ last = NoIdeStep
    /\ steps = 0

\* The Run button or F5.
RunButton ==
    /\ IF interp.is_running
       THEN /\ last' = IdeStep("run_code ignored", interp)
            /\ UNCHANGED interp
       ELSE /\ Len(interp.futures) < MaxRunRequests
            /\ interp' = run_code(interp)
            /\ last' = IdeStep("run_code", interp')
    /\ UNCHANGED steps

\* The Stop button.
StopButton ==
    /\ IF interp.is_running
       THEN /\ interp' = stop_execution(interp)
            /\ last' = IdeStep("stop_execution", interp')
       ELSE /\ last' = IdeStep("stop_execution ignored", interp)
            /\ UNCHANGED interp
    /\ UNCHANGED steps

\* The timer of check_execution_status.
CheckStatus ==
    \E elapsed \in BOOLEAN :
        /\ interp' = check_execution_status(interp, elapsed)
        /\ last' = IdeStep(IF interp'.is_running = interp.is_running THEN "check"
                           ELSE IF interp.futures[interp.current_future].state = "FINISHED"
                           THEN "finished" ELSE "timeout", interp')
        /\ UNCHANGED steps

\* The timer of process_output_queue.
ProcessOutput ==
    /\ interp' = process_output_queue(interp)
    /\ last' = IdeStep("process_output_queue", interp')
    /\ UNCHANGED steps

\* The worker thread of an executor starts _execute_code_safe for a future.
WorkerStart ==
    \E f \in DOMAIN interp.futures :
        /\ NextOfWorker(interp, f)
        /\ interp' = [interp EXCEPT !.futures[f].state = "RUNNING"]
        /\ last' = IdeStep("start", interp')
        /\ UNCHANGED steps

\* The evaluation prints a line: the output callback queues it.
WorkerPrint ==
    \E f \in Executing(interp) :
        /\ interp.futures[f].printed < MaxPrints
        /\ interp' = _queue_output(interp, f)
        /\ last' = IdeStep("print", interp')
        /\ UNCHANGED steps

\* _execute_code_safe returns and the future gets its result.
WorkerFinish ==
    \E f \in Executing(interp) :
        /\ interp' = [interp EXCEPT !.futures[f].state = "FINISHED"]
        /\ last' = IdeStep("return", interp')
        /\ UNCHANGED steps

NextIde ==
    \/ RunButton
    \/ StopButton
    \/ CheckStatus
    \/ ProcessOutput
    \/ WorkerStart
    \/ WorkerPrint
    \/ WorkerFinish

SpecIde == InitIde /\ [][NextIde]_vars

\* C30: at most one evaluation is executing at any time, also after Stop or
\* a timeout has reported a run as finished and Run was pressed again, and
\* the output area a Run cleared for its evaluation never shows a line
\* printed by an evaluation that was abandoned.
C30_OneEvaluationAtATime ==
    /\ Cardinality(Executing(interp)) <= 1
    /\ \A k \in DOMAIN interp.output_text :
           interp.output_text[k].from \in last.abandoned
               => interp.output_text[k].from = last.shown

====
